---- MODULE Spec2Model ----
(***************************************************************************)
(* FDA device predicate graph: the graph store (selection, search term,    *)
(* filtered devices), the device filter, the node and edge transformation  *)
(* of the graph canvas and the hierarchy depth of the built-in dataset.    *)
(*                                                                         *)
(* A JavaScript string is a sequence of one-character strings, so that     *)
(* toLowerCase and includes are computed on the characters.  A device is a *)
(* record; the optional property panelType is a field that may be absent.  *)
(***************************************************************************)
EXTENDS Integers, Sequences, FiniteSets, TLC

(***************************************************************************)
(* Strings                                                                 *)
(***************************************************************************)

\* The upper-case letters String.prototype.toLowerCase changes, with their
\* lower-case forms; every other character of the data is left as it is.
UpperCase ==
  <<"A","B","C","D","E","F","G","H","I","J","K","L","M",
    "N","O","P","Q","R","S","T","U","V","W","X","Y","Z">>

LowerCase ==
  <<"a","b","c","d","e","f","g","h","i","j","k","l","m",
    "n","o","p","q","r","s","t","u","v","w","x","y","z">>

\* The other characters of the data: digits, space and punctuation.
Uncased ==
  {"0","1","2","3","4","5","6","7","8","9"," ","&","-","."}

\* The lower-case form of every character: an upper-case letter gives its
\* lower-case letter, every other character itself.
lowerOf ==
  [c \in {UpperCase[i] : i \in 1..26} \cup {LowerCase[i] : i \in 1..26} \cup Uncased |->
     IF \E i \in 1..26 : UpperCase[i] = c
       THEN LowerCase[CHOOSE i \in 1..26 : UpperCase[i] = c]
       ELSE c]

\* String.prototype.toLowerCase, character by character.
toLowerCase(s) ==
  [i \in 1..Len(s) |-> lowerOf[s[i]]]

\* String.prototype.includes: sub occurs in s at some offset.
includes(s, sub) ==
  \E i \in 0..(Len(s) - Len(sub)) : \A j \in 1..Len(sub) : s[i + j] = sub[j]

\* Array.prototype.includes on an array of strings.
arrayIncludes(arr, x) ==
  \E i \in 1..Len(arr) : arr[i] = x

\* The minimum length of a search term that filters (searchTerm.length < 2).
MinSearchLength ==
  2

(***************************************************************************)
(* The built-in dataset                                                    *)
(***************************************************************************)

BuiltInDevices ==
  <<
    [kNumber |-> <<"K","8","6","1","7","1","2">>,
     deviceName |-> <<"C","a","r","d","i","o","F","l","o","w"," ","B","a","l","l","o","o","n"," ","C","a","t","h","e","t","e","r"," ","S","y","s","t","e","m">>,
     manufacturer |-> <<"B","o","s","t","o","n"," ","S","c","i","e","n","t","i","f","i","c"," ","C","o","r","p","o","r","a","t","i","o","n">>,
     productClass |-> <<"I","I">>,
     panelType |-> <<"C","a","r","d","i","o","v","a","s","c","u","l","a","r">>,
     predicateDevices |-> <<>>],
    [kNumber |-> <<"K","8","5","1","2","3","4">>,
     deviceName |-> <<"O","r","t","h","o","M","a","x"," ","H","i","p"," ","P","r","o","s","t","h","e","s","i","s">>,
     manufacturer |-> <<"Z","i","m","m","e","r"," ","B","i","o","m","e","t"," ","H","o","l","d","i","n","g","s"," ","I","n","c",".">>,
     productClass |-> <<"I","I">>,
     panelType |-> <<"O","r","t","h","o","p","e","d","i","c">>,
     predicateDevices |-> <<>>],
    [kNumber |-> <<"K","8","4","3","5","6","7">>,
     deviceName |-> <<"N","e","u","r","o","S","t","i","m"," ","D","e","e","p"," ","B","r","a","i","n"," ","S","t","i","m","u","l","a","t","o","r">>,
     manufacturer |-> <<"M","e","d","t","r","o","n","i","c"," ","I","n","c",".">>,
     productClass |-> <<"I","I","I">>,
     panelType |-> <<"N","e","u","r","o","l","o","g","y">>,
     predicateDevices |-> <<>>],
    [kNumber |-> <<"K","8","7","1","4","4","5">>,
     deviceName |-> <<"O","p","t","i","V","i","e","w"," ","C","o","n","t","a","c","t"," ","L","e","n","s">>,
     manufacturer |-> <<"J","o","h","n","s","o","n"," ","&"," ","J","o","h","n","s","o","n"," ","V","i","s","i","o","n"," ","C","a","r","e">>,
     productClass |-> <<"I","I">>,
     panelType |-> <<"O","p","h","t","h","a","l","m","i","c">>,
     predicateDevices |-> <<>>],
    [kNumber |-> <<"K","8","8","2","2","3","4">>,
     deviceName |-> <<"U","l","t","r","a","S","o","u","n","d"," ","D","i","a","g","n","o","s","t","i","c"," ","S","y","s","t","e","m">>,
     manufacturer |-> <<"G","E"," ","H","e","a","l","t","h","C","a","r","e"," ","T","e","c","h","n","o","l","o","g","i","e","s"," ","I","n","c",".">>,
     productClass |-> <<"I","I">>,
     panelType |-> <<"R","a","d","i","o","l","o","g","y">>,
     predicateDevices |-> <<>>],
    [kNumber |-> <<"K","8","6","3","4","4","5">>,
     deviceName |-> <<"S","u","r","g","i","C","l","a","m","p"," ","H","e","m","o","s","t","a","t","i","c"," ","D","e","v","i","c","e">>,
     manufacturer |-> <<"E","t","h","i","c","o","n"," ","I","n","c",".">>,
     productClass |-> <<"I">>,
     panelType |-> <<"G","e","n","e","r","a","l"," ","S","u","r","g","e","r","y">>,
     predicateDevices |-> <<>>],
    [kNumber |-> <<"K","9","2","1","1","5","6">>,
     deviceName |-> <<"C","a","r","d","i","o","F","l","o","w"," ","P","l","u","s"," ","B","a","l","l","o","o","n"," ","C","a","t","h","e","t","e","r">>,
     manufacturer |-> <<"B","o","s","t","o","n"," ","S","c","i","e","n","t","i","f","i","c"," ","C","o","r","p","o","r","a","t","i","o","n">>,
     productClass |-> <<"I","I">>,
     panelType |-> <<"C","a","r","d","i","o","v","a","s","c","u","l","a","r">>,
     predicateDevices |-> <<<<"K","8","6","1","7","1","2">>>>],
    [kNumber |-> <<"K","9","3","3","5","6","7">>,
     deviceName |-> <<"O","r","t","h","o","M","a","x"," ","P","r","o"," ","H","i","p"," ","S","y","s","t","e","m">>,
     manufacturer |-> <<"Z","i","m","m","e","r"," ","B","i","o","m","e","t"," ","H","o","l","d","i","n","g","s"," ","I","n","c",".">>,
     productClass |-> <<"I","I">>,
     panelType |-> <<"O","r","t","h","o","p","e","d","i","c">>,
     predicateDevices |-> <<<<"K","8","5","1","2","3","4">>>>],
    [kNumber |-> <<"K","9","1","4","4","2","3">>,
     deviceName |-> <<"N","e","u","r","o","S","t","i","m"," ","A","d","v","a","n","c","e","d"," ","D","B","S"," ","S","y","s","t","e","m">>,
     manufacturer |-> <<"M","e","d","t","r","o","n","i","c"," ","I","n","c",".">>,
     productClass |-> <<"I","I","I">>,
     panelType |-> <<"N","e","u","r","o","l","o","g","y">>,
     predicateDevices |-> <<<<"K","8","4","3","5","6","7">>>>],
    [kNumber |-> <<"K","9","4","5","6","7","8">>,
     deviceName |-> <<"O","p","t","i","V","i","e","w"," ","T","o","r","i","c"," ","C","o","n","t","a","c","t"," ","L","e","n","s">>,
     manufacturer |-> <<"J","o","h","n","s","o","n"," ","&"," ","J","o","h","n","s","o","n"," ","V","i","s","i","o","n"," ","C","a","r","e">>,
     productClass |-> <<"I","I">>,
     panelType |-> <<"O","p","h","t","h","a","l","m","i","c">>,
     predicateDevices |-> <<<<"K","8","7","1","4","4","5">>>>],
    [kNumber |-> <<"K","9","5","2","2","3","4">>,
     deviceName |-> <<"U","l","t","r","a","S","o","u","n","d"," ","P","r","o"," ","I","m","a","g","i","n","g"," ","S","y","s","t","e","m">>,
     manufacturer |-> <<"G","E"," ","H","e","a","l","t","h","C","a","r","e"," ","T","e","c","h","n","o","l","o","g","i","e","s"," ","I","n","c",".">>,
     productClass |-> <<"I","I">>,
     panelType |-> <<"R","a","d","i","o","l","o","g","y">>,
     predicateDevices |-> <<<<"K","8","8","2","2","3","4">>>>],
    [kNumber |-> <<"K","9","3","4","4","5","6">>,
     deviceName |-> <<"S","u","r","g","i","C","l","a","m","p"," ","A","d","v","a","n","c","e","d"," ","H","e","m","o","s","t","a","t","i","c"," ","S","y","s","t","e","m">>,
     manufacturer |-> <<"E","t","h","i","c","o","n"," ","I","n","c",".">>,
     productClass |-> <<"I","I">>,
     panelType |-> <<"G","e","n","e","r","a","l"," ","S","u","r","g","e","r","y">>,
     predicateDevices |-> <<<<"K","8","6","3","4","4","5">>>>],
    [kNumber |-> <<"K","0","2","1","2","3","4">>,
     deviceName |-> <<"C","a","r","d","i","o","F","l","o","w"," ","E","l","i","t","e"," ","D","r","u","g","-","E","l","u","t","i","n","g"," ","S","t","e","n","t">>,
     manufacturer |-> <<"A","b","b","o","t","t"," ","L","a","b","o","r","a","t","o","r","i","e","s">>,
     productClass |-> <<"I","I","I">>,
     panelType |-> <<"C","a","r","d","i","o","v","a","s","c","u","l","a","r">>,
     predicateDevices |-> <<<<"K","9","2","1","1","5","6">>, <<"K","8","6","1","7","1","2">>>>],
    [kNumber |-> <<"K","0","1","5","5","6","7">>,
     deviceName |-> <<"O","r","t","h","o","M","a","x"," ","C","e","r","a","m","i","c"," ","H","i","p"," ","S","y","s","t","e","m">>,
     manufacturer |-> <<"D","e","P","u","y"," ","S","y","n","t","h","e","s">>,
     productClass |-> <<"I","I">>,
     panelType |-> <<"O","r","t","h","o","p","e","d","i","c">>,
     predicateDevices |-> <<<<"K","9","3","3","5","6","7">>, <<"K","8","5","1","2","3","4">>>>],
    [kNumber |-> <<"K","0","3","3","4","4","5">>,
     deviceName |-> <<"N","e","u","r","o","S","t","i","m"," ","M","R","I","-","C","o","m","p","a","t","i","b","l","e"," ","D","B","S">>,
     manufacturer |-> <<"A","b","b","o","t","t"," ","N","e","u","r","o","m","o","d","u","l","a","t","i","o","n">>,
     productClass |-> <<"I","I","I">>,
     panelType |-> <<"N","e","u","r","o","l","o","g","y">>,
     predicateDevices |-> <<<<"K","9","1","4","4","2","3">>>>],
    [kNumber |-> <<"K","0","4","1","1","5","6">>,
     deviceName |-> <<"O","p","t","i","V","i","e","w"," ","D","a","i","l","y"," ","D","i","s","p","o","s","a","b","l","e"," ","L","e","n","s">>,
     manufacturer |-> <<"A","l","c","o","n"," ","I","n","c",".">>,
     productClass |-> <<"I","I">>,
     panelType |-> <<"O","p","h","t","h","a","l","m","i","c">>,
     predicateDevices |-> <<<<"K","9","4","5","6","7","8">>, <<"K","8","7","1","4","4","5">>>>],
    [kNumber |-> <<"K","0","5","3","3","2","2">>,
     deviceName |-> <<"U","l","t","r","a","S","o","u","n","d"," ","4","D"," ","I","m","a","g","i","n","g"," ","S","y","s","t","e","m">>,
     manufacturer |-> <<"P","h","i","l","i","p","s"," ","H","e","a","l","t","h","c","a","r","e">>,
     productClass |-> <<"I","I">>,
     panelType |-> <<"R","a","d","i","o","l","o","g","y">>,
     predicateDevices |-> <<<<"K","9","5","2","2","3","4">>>>],
    [kNumber |-> <<"K","1","2","3","4","5","6">>,
     deviceName |-> <<"C","a","r","d","i","o","F","l","o","w"," ","S","m","a","r","t"," ","S","t","e","n","t"," ","S","y","s","t","e","m">>,
     manufacturer |-> <<"B","o","s","t","o","n"," ","S","c","i","e","n","t","i","f","i","c"," ","C","o","r","p","o","r","a","t","i","o","n">>,
     productClass |-> <<"I","I","I">>,
     panelType |-> <<"C","a","r","d","i","o","v","a","s","c","u","l","a","r">>,
     predicateDevices |-> <<<<"K","0","2","1","2","3","4">>, <<"K","9","2","1","1","5","6">>>>],
    [kNumber |-> <<"K","1","3","4","5","6","7">>,
     deviceName |-> <<"O","r","t","h","o","M","a","x"," ","S","m","a","r","t"," ","H","i","p"," ","I","m","p","l","a","n","t">>,
     manufacturer |-> <<"S","t","r","y","k","e","r"," ","C","o","r","p","o","r","a","t","i","o","n">>,
     productClass |-> <<"I","I">>,
     panelType |-> <<"O","r","t","h","o","p","e","d","i","c">>,
     predicateDevices |-> <<<<"K","0","1","5","5","6","7">>, <<"K","9","3","3","5","6","7">>>>],
    [kNumber |-> <<"K","1","4","5","6","7","8">>,
     deviceName |-> <<"N","e","u","r","o","S","t","i","m"," ","C","l","o","s","e","d","-","L","o","o","p"," ","D","B","S">>,
     manufacturer |-> <<"M","e","d","t","r","o","n","i","c"," ","I","n","c",".">>,
     productClass |-> <<"I","I","I">>,
     panelType |-> <<"N","e","u","r","o","l","o","g","y">>,
     predicateDevices |-> <<<<"K","0","3","3","4","4","5">>, <<"K","9","1","4","4","2","3">>>>],
    [kNumber |-> <<"K","1","5","6","7","8","9">>,
     deviceName |-> <<"O","p","t","i","V","i","e","w"," ","S","m","a","r","t"," ","C","o","n","t","a","c","t"," ","L","e","n","s">>,
     manufacturer |-> <<"G","o","o","g","l","e"," ","L","L","C">>,
     productClass |-> <<"I","I">>,
     panelType |-> <<"O","p","h","t","h","a","l","m","i","c">>,
     predicateDevices |-> <<<<"K","0","4","1","1","5","6">>, <<"K","9","4","5","6","7","8">>>>],
    [kNumber |-> <<"K","1","7","2","2","3","4">>,
     deviceName |-> <<"H","e","a","r","t","W","a","t","c","h"," ","C","a","r","d","i","a","c"," ","M","o","n","i","t","o","r">>,
     manufacturer |-> <<"A","p","p","l","e"," ","I","n","c",".">>,
     productClass |-> <<"I","I">>,
     panelType |-> <<"C","a","r","d","i","o","v","a","s","c","u","l","a","r">>,
     predicateDevices |-> <<>>],
    [kNumber |-> <<"K","1","8","3","4","4","5">>,
     deviceName |-> <<"S","k","i","n","S","e","n","s","e"," ","D","e","r","m","a","t","o","l","o","g","y"," ","S","c","a","n","n","e","r">>,
     manufacturer |-> <<"3","M"," ","C","o","m","p","a","n","y">>,
     productClass |-> <<"I","I">>,
     panelType |-> <<"D","e","r","m","a","t","o","l","o","g","y">>,
     predicateDevices |-> <<>>],
    [kNumber |-> <<"K","1","9","1","1","5","6">>,
     deviceName |-> <<"B","r","e","a","t","h","e","E","a","s","y"," ","C","P","A","P"," ","S","y","s","t","e","m">>,
     manufacturer |-> <<"R","e","s","M","e","d"," ","I","n","c",".">>,
     productClass |-> <<"I","I">>,
     panelType |-> <<"A","n","e","s","t","h","e","s","i","o","l","o","g","y">>,
     predicateDevices |-> <<>>],
    [kNumber |-> <<"K","2","0","1","2","3","4">>,
     deviceName |-> <<"B","r","e","a","t","h","e","E","a","s","y"," ","A","u","t","o"," ","C","P","A","P">>,
     manufacturer |-> <<"R","e","s","M","e","d"," ","I","n","c",".">>,
     productClass |-> <<"I","I">>,
     panelType |-> <<"A","n","e","s","t","h","e","s","i","o","l","o","g","y">>,
     predicateDevices |-> <<<<"K","1","9","1","1","5","6">>>>],
    [kNumber |-> <<"K","2","1","2","3","4","5">>,
     deviceName |-> <<"H","e","a","r","t","W","a","t","c","h"," ","P","r","o"," ","C","a","r","d","i","a","c"," ","M","o","n","i","t","o","r">>,
     manufacturer |-> <<"A","p","p","l","e"," ","I","n","c",".">>,
     productClass |-> <<"I","I">>,
     panelType |-> <<"C","a","r","d","i","o","v","a","s","c","u","l","a","r">>,
     predicateDevices |-> <<<<"K","1","7","2","2","3","4">>>>],
    [kNumber |-> <<"K","2","2","3","4","5","6">>,
     deviceName |-> <<"S","k","i","n","S","e","n","s","e"," ","A","I"," ","D","e","r","m","a","t","o","l","o","g","y"," ","A","s","s","i","s","t","a","n","t">>,
     manufacturer |-> <<"3","M"," ","C","o","m","p","a","n","y">>,
     productClass |-> <<"I","I">>,
     panelType |-> <<"D","e","r","m","a","t","o","l","o","g","y">>,
     predicateDevices |-> <<<<"K","1","8","3","4","4","5">>>>],
    [kNumber |-> <<"K","2","3","4","5","6","7">>,
     deviceName |-> <<"D","i","a","b","e","t","e","s","G","u","a","r","d"," ","C","o","n","t","i","n","u","o","u","s"," ","M","o","n","i","t","o","r">>,
     manufacturer |-> <<"D","e","x","c","o","m"," ","I","n","c",".">>,
     productClass |-> <<"I","I">>,
     panelType |-> <<"C","l","i","n","i","c","a","l"," ","C","h","e","m","i","s","t","r","y">>,
     predicateDevices |-> <<>>],
    [kNumber |-> <<"K","2","4","5","6","7","8">>,
     deviceName |-> <<"D","i","a","b","e","t","e","s","G","u","a","r","d"," ","P","r","o"," ","C","G","M"," ","S","y","s","t","e","m">>,
     manufacturer |-> <<"D","e","x","c","o","m"," ","I","n","c",".">>,
     productClass |-> <<"I","I">>,
     panelType |-> <<"C","l","i","n","i","c","a","l"," ","C","h","e","m","i","s","t","r","y">>,
     predicateDevices |-> <<<<"K","2","3","4","5","6","7">>>>],
    [kNumber |-> <<"K","2","3","1","1","8","9">>,
     deviceName |-> <<"R","o","b","o","S","u","r","g"," ","L","a","p","a","r","o","s","c","o","p","i","c"," ","S","y","s","t","e","m">>,
     manufacturer |-> <<"I","n","t","u","i","t","i","v","e"," ","S","u","r","g","i","c","a","l"," ","I","n","c",".">>,
     productClass |-> <<"I","I">>,
     panelType |-> <<"G","e","n","e","r","a","l"," ","S","u","r","g","e","r","y">>,
     predicateDevices |-> <<>>],
    [kNumber |-> <<"K","2","4","1","1","9","0">>,
     deviceName |-> <<"R","o","b","o","S","u","r","g"," ","A","I"," ","L","a","p","a","r","o","s","c","o","p","i","c"," ","P","l","a","t","f","o","r","m">>,
     manufacturer |-> <<"I","n","t","u","i","t","i","v","e"," ","S","u","r","g","i","c","a","l"," ","I","n","c",".">>,
     productClass |-> <<"I","I">>,
     panelType |-> <<"G","e","n","e","r","a","l"," ","S","u","r","g","e","r","y">>,
     predicateDevices |-> <<<<"K","2","3","1","1","8","9">>, <<"K","9","3","4","4","5","6">>>>]
  >>

\* The three devices of the cardiovascular chain: K861712 (root), K921156 and
\* K021234, as they stand in the built-in dataset.
K861712 ==
  <<"K","8","6","1","7","1","2">>

K921156 ==
  <<"K","9","2","1","1","5","6">>

K021234 ==
  <<"K","0","2","1","2","3","4">>

K123456 ==
  <<"K","1","2","3","4","5","6">>

\* intendedUse of the three devices of the CardioFlow line.
intendedUse ==
  [k \in {K861712, K921156, K021234} |->
     CASE k = K861712 ->
            <<"P","e","r","c","u","t","a","n","e","o","u","s"," ","t","r","a","n","s","l","u","m","i","n","a","l"," ","c","o","r","o","n","a","r","y"," ","a","n","g","i","o","p","l","a","s","t","y"," ","f","o","r"," ","t","r","e","a","t","m","e","n","t"," ","o","f"," ","c","o","r","o","n","a","r","y"," ","a","r","t","e","r","y"," ","d","i","s","e","a","s","e">>
       [] k = K921156 ->
            <<"E","n","h","a","n","c","e","d"," ","p","e","r","c","u","t","a","n","e","o","u","s"," ","t","r","a","n","s","l","u","m","i","n","a","l"," ","c","o","r","o","n","a","r","y"," ","a","n","g","i","o","p","l","a","s","t","y"," ","w","i","t","h"," ","i","m","p","r","o","v","e","d"," ","b","a","l","l","o","o","n"," ","t","e","c","h","n","o","l","o","g","y">>
       [] k = K021234 ->
            <<"D","r","u","g","-","e","l","u","t","i","n","g"," ","c","o","r","o","n","a","r","y"," ","s","t","e","n","t"," ","f","o","r"," ","p","r","e","v","e","n","t","i","o","n"," ","o","f"," ","r","e","s","t","e","n","o","s","i","s">>]

ThreeDevices ==
  SelectSeq(BuiltInDevices, LAMBDA d : d.kNumber \in {K861712, K921156, K021234})

(***************************************************************************)
(* The device filter of the store                                          *)
(***************************************************************************)

\* A filter predicate that forgets to lower-case the device name.
deviceMatchesNameAsWritten(device, lowerSearchTerm) ==
  \/ includes(toLowerCase(device.kNumber), lowerSearchTerm)
  \/ includes(device.deviceName, lowerSearchTerm)
  \/ includes(toLowerCase(device.manufacturer), lowerSearchTerm)
  \/ includes(toLowerCase(device.productClass), lowerSearchTerm)
  \/ IF "panelType" \in DOMAIN device
       THEN includes(toLowerCase(device.panelType), lowerSearchTerm)
       ELSE FALSE

\* The predicate of devices.filter in filterDevices: the lower-cased term is
\* included in one of the five lower-cased fields; an absent panelType gives
\* false (device.panelType?. ... ?? false).
deviceMatches(device, lowerSearchTerm) ==
  \/ includes(toLowerCase(device.kNumber), lowerSearchTerm)
  \/ includes(toLowerCase(device.deviceName), lowerSearchTerm)
  \/ includes(toLowerCase(device.manufacturer), lowerSearchTerm)
  \/ includes(toLowerCase(device.productClass), lowerSearchTerm)
  \/ IF "panelType" \in DOMAIN device
       THEN includes(toLowerCase(device.panelType), lowerSearchTerm)
       ELSE FALSE

\* A filter that filters on every non-empty term, whatever its length.
filterDevicesNoMinimum(devices, term) ==
  IF term = <<>>
    THEN devices
    ELSE LET lowerSearchTerm == toLowerCase(term)
         IN  SelectSeq(devices, LAMBDA d : deviceMatches(d, lowerSearchTerm))

filterDevices(devices, term) ==
  IF term = <<>> \/ Len(term) < MinSearchLength
    THEN devices
    ELSE LET lowerSearchTerm == toLowerCase(term)
         IN  SelectSeq(devices, LAMBDA d : deviceMatches(d, lowerSearchTerm))

(***************************************************************************)
(* The graph canvas: nodes and edges of a device list                      *)
(***************************************************************************)

\* JavaScript's null (the cleared selection) and undefined (a prop that is
\* not passed); neither is a sequence of characters.
null ==
  <<"null">>

undefined ==
  <<"undefined">>

\* The nodes of transformDevicesToNodes, before positioning: one node per
\* device, in the order of the list.
transformDevicesToNodes(devices, selectedId) ==
  [i \in 1..Len(devices) |->
     [id |-> devices[i].kNumber,
      isSelected |-> devices[i].kNumber = selectedId,
      childrenCount |->
        Cardinality({j \in 1..Len(devices) :
                       arrayIncludes(devices[j].predicateDevices, devices[i].kNumber)}),
      predicateCount |-> Len(devices[i].predicateDevices),
      hierarchyDepth |-> 0]]

\* Edges drawn from the citing device to its predicate.
edgesOfDeviceFromDependent(device) ==
  [j \in 1..Len(device.predicateDevices) |->
     [id |-> device.kNumber \o <<"-">> \o device.predicateDevices[j],
      source |-> device.kNumber,
      target |-> device.predicateDevices[j]]]

\* The edges pushed for one device: one per entry of predicateDevices.
edgesOfDevice(device) ==
  [j \in 1..Len(device.predicateDevices) |->
     [id |-> device.predicateDevices[j] \o <<"-">> \o device.kNumber,
      source |-> device.predicateDevices[j],
      target |-> device.kNumber]]

\* The edges pushed for the devices first..last of the list, in the order
\* of the list (the list is split in halves, which keeps the nesting of
\* the definition shallow on long lists).
RECURSIVE edgesFrom(_, _, _)
edgesFrom(devices, first, last) ==
  IF first > last
    THEN <<>>
    ELSE IF first = last
      THEN edgesOfDevice(devices[first])
      ELSE LET middle == (first + last) \div 2
           IN  edgesFrom(devices, first, middle) \o edgesFrom(devices, middle + 1, last)

transformDevicesToEdges(devices) ==
  edgesFrom(devices, 1, Len(devices))

\* The largest node count the hierarchical layout is used for
\* (nodeCount <= 500).
DagreNodeLimit ==
  500

\* A limit that sends a graph of exactly 500 nodes to the fallback already.
shouldUseDagreBelowLimit(nodeCount) ==
  nodeCount < DagreNodeLimit

shouldUseDagre(nodeCount) ==
  nodeCount <= DagreNodeLimit

DAGRE_CONFIG ==
  [rankdir |-> "TB", nodesep |-> 80, ranksep |-> 120, marginx |-> 50, marginy |-> 50]

\* getLayoutedElements: a new dagre graph with the configuration, one node of
\* 180 x 60 per graph node and one edge per graph edge, both in the order of
\* the arrays, is handed to dagre.layout.  The coordinates are computed by
\* the dagre library; the layout is kept as the graph the library is run on.
getLayoutedElements(nodeList, edgeList) ==
  [strategy |-> "dagre",
   tooLargeWarning |-> FALSE,
   config |-> DAGRE_CONFIG,
   graphNodes |-> [i \in 1..Len(nodeList) |->
                    [id |-> nodeList[i].id, width |-> 180, height |-> 60]],
   graphEdges |-> [i \in 1..Len(edgeList) |->
                    <<edgeList[i].source, edgeList[i].target>>]]

\* The fallback of transformDevicesToNodes: a warning that the dataset is too
\* large, and a grid of six columns filled in the order of the list (index
\* is the position in the list, from 0).
gridLayout(nodeList) ==
  [strategy |-> "grid",
   tooLargeWarning |-> TRUE,
   positions |-> [i \in 1..Len(nodeList) |->
                   [id |-> nodeList[i].id,
                    x |-> ((i - 1) % 6) * 200,
                    y |-> ((i - 1) \div 6) * 150]]]

\* The positioning of transformDevicesToNodes, given the initial nodes (one
\* per device) and the edges of the device list: dagre when shouldUseDagre
\* allows it for the number of devices, the grid otherwise.
layoutNodes(initialNodes, edgeList) ==
  IF shouldUseDagre(Len(initialNodes))
    THEN getLayoutedElements(initialNodes, edgeList)
    ELSE gridLayout(initialNodes)

(***************************************************************************)
(* The store and the dashboard that renders it                             *)
(***************************************************************************)

VARIABLES
  mockDevices,      \* the dataset the store filters (a constant of a run)
  selectedNodeId,   \* store: selected K-number or null
  searchTerm,       \* store: current query
  filteredDevices,  \* store: devices kept by the last search
  isSearching,      \* store: loading flag
  nodes,            \* graph canvas: nodes handed to the renderer
  edges,            \* graph canvas: edges handed to the renderer
  layout,           \* graph canvas: the layout that positioned the nodes
  searchInput,      \* search input: the typed query and its pending timers
  env,              \* environment configuration (fixed when the page loads)
  client,           \* API client: rate limiter entries and requests sent
  boundary,         \* error boundary: its state and its pending retry timers
  localStorage,     \* the keys of localStorage the application writes
  lastAction,       \* name of the last operation performed
  returned,         \* <<v>> when the last operation returned v, else <<>>
  depths            \* the hierarchy depths computed so far, in dataset order

storeVars ==
  <<selectedNodeId, searchTerm, filteredDevices, isSearching>>

vars ==
  <<mockDevices, selectedNodeId, searchTerm, filteredDevices, isSearching,
    nodes, edges, layout, searchInput, env, client, boundary, localStorage,
    lastAction, returned, depths>>

\* An id that is the K-number of no device.
NonexistentId ==
  <<"n","o","n","e","x","i","s","t","e","n","t","-","i","d">>

\* The ids handed to setSelectedNode.
SelectionInputs ==
  {null, K921156, K123456, NonexistentId}

\* The queries typed or submitted.
QueryInputs ==
  { <<>>, <<"a">>, <<"K","9","2">>, <<"k","9","2">>, <<"B","O","S">>, <<"z","z">> }

\* The lists handed to setFilteredDevices.
DeviceListInputs ==
  { <<>>, mockDevices, SubSeq(mockDevices, 1, 1) }

\* A display list that pulls the predicates of the matches back in.
displayDevicesWithPredicates(term, filtered, all) ==
  IF term # <<>>
    THEN SelectSeq(all, LAMBDA d :
           \/ arrayIncludes([i \in 1..Len(filtered) |-> filtered[i].kNumber], d.kNumber)
           \/ \E i \in 1..Len(filtered) : arrayIncludes(filtered[i].predicateDevices, d.kNumber))
    ELSE all

\* displayDevices of DashboardTemplate: the filtered list while a search
\* term is set, the whole dataset otherwise.
displayDevices(term, filtered, all) ==
  IF term # <<>> THEN filtered ELSE all

\* getDisplayDevices of the store module, on the current state.
getDisplayDevices ==
  IF searchTerm # <<>> THEN filteredDevices ELSE mockDevices

\* The re-render that follows a store update: GraphCanvas recomputes its
\* nodes and edges from the devices prop (no selectedDeviceId is passed) and
\* its effect hands them to React Flow.
Render(term, filtered) ==
  LET devices == displayDevices(term, filtered, mockDevices)
  IN  /\ nodes' = transformDevicesToNodes(devices, undefined)
      /\ edges' = transformDevicesToEdges(devices)
      /\ layout' = layoutNodes(nodes', edges')

\* The search input when it is mounted: the query of the form is the search
\* term of the store (empty), and no timer is pending.
initialSearchInput ==
  [currentQuery |-> <<>>, queryAge |-> 0, debounceTimers |-> <<>>,
   completionTimers |-> <<>>, cancelled |-> 0, performed |-> <<>>]

\* DEFAULT_CONFIG of the environment, as far as the data source goes: mock
\* data, no API key, 1000 requests in the rate limit window.
DEFAULT_CONFIG ==
  [dataMode |-> "mock", fdaApiKey |-> FALSE, rateLimit |-> 1000]

\* The error boundary when it is constructed and mounted: no error, no
\* retry made, no retry timer pending.  cleared counts the times a retry timer has cleared
\* the error since the boundary was constructed or last reset.
initialBoundary ==
  [mounted |-> TRUE, hasError |-> FALSE, error |-> "none", retryCount |-> 0,
   retryTimers |-> <<>>, cleared |-> 0]

\* localStorage of a browser that has not run the application: neither key
\* is set.
initialLocalStorage ==
  [FDA_DATA_MODE |-> "unset", ERROR_RECOVERY_MODE |-> "unset"]

\* The API client when it is created: no request recorded by the rate
\* limiter, no request sent.
initialClient ==
  [requests |-> <<>>, fetches |-> 0]

initialState ==
  [selectedNodeId |-> null, searchTerm |-> <<>>, filteredDevices |-> <<>>,
   isSearching |-> FALSE]

\* The state right after the store and the dashboard are created, for the
\* dataset mockDevices.
InitStore ==
  /\ selectedNodeId = initialState.selectedNodeId
  /\ searchTerm = initialState.searchTerm
  /\ filteredDevices = initialState.filteredDevices
  /\ isSearching = initialState.isSearching
  /\ nodes = transformDevicesToNodes(mockDevices, undefined)
  /\ edges = transformDevicesToEdges(mockDevices)
  /\ layout = layoutNodes(nodes, edges)
  /\ searchInput = initialSearchInput
  /\ boundary = initialBoundary
  /\ localStorage = initialLocalStorage
  /\ env = DEFAULT_CONFIG
  /\ client = initialClient
  /\ lastAction = "init"
  /\ returned = <<>>
  /\ depths = <<>>

Init ==
  /\ mockDevices \in {BuiltInDevices, ThreeDevices}
  /\ InitStore

setSelectedNode(id) ==
  /\ selectedNodeId' = id
  /\ UNCHANGED <<searchInput, env, boundary, localStorage, client, depths, mockDevices, searchTerm, filteredDevices, isSearching>>
  /\ Render(searchTerm, filteredDevices)
  /\ lastAction' = "setSelectedNode"
  /\ returned' = <<>>

setSearchTerm(term) ==
  /\ searchTerm' = term
  /\ UNCHANGED <<searchInput, env, boundary, localStorage, client, depths, mockDevices, selectedNodeId, filteredDevices, isSearching>>
  /\ Render(term, filteredDevices)
  /\ lastAction' = "setSearchTerm"
  /\ returned' = <<>>

setFilteredDevices(devices) ==
  /\ filteredDevices' = devices
  /\ UNCHANGED <<searchInput, env, boundary, localStorage, client, depths, mockDevices, selectedNodeId, searchTerm, isSearching>>
  /\ Render(searchTerm, devices)
  /\ lastAction' = "setFilteredDevices"
  /\ returned' = <<>>

setIsSearching(loading) ==
  /\ isSearching' = loading
  /\ UNCHANGED <<searchInput, env, boundary, localStorage, client, depths, mockDevices, selectedNodeId, searchTerm, filteredDevices>>
  /\ Render(searchTerm, filteredDevices)
  /\ lastAction' = "setIsSearching"
  /\ returned' = <<>>

\* A performSearch that drops a selection that is not among the matches.
performSearchDroppingStaleSelection(term) ==
  LET filtered == filterDevices(mockDevices, term)
  IN  /\ searchTerm' = term
      /\ filteredDevices' = filtered
      /\ selectedNodeId' =
           IF \E i \in 1..Len(filtered) : filtered[i].kNumber = selectedNodeId
             THEN selectedNodeId
             ELSE null
      /\ UNCHANGED <<searchInput, env, boundary, localStorage, client, depths, mockDevices, isSearching>>
      /\ Render(term, filtered)
      /\ lastAction' = "performSearch"
      /\ returned' = <<>>

\* A performSearch that keeps the matches as the dataset.
performSearchNarrowingDataset(term) ==
  LET filtered == filterDevices(mockDevices, term)
  IN  /\ searchTerm' = term
      /\ filteredDevices' = filtered
      /\ mockDevices' = filtered
      /\ UNCHANGED <<searchInput, env, boundary, localStorage, client, depths, selectedNodeId, isSearching>>
      /\ Render(term, filtered)
      /\ lastAction' = "performSearch"
      /\ returned' = <<>>

performSearch(term) ==
  LET filtered == filterDevices(mockDevices, term)
  IN  /\ searchTerm' = term
      /\ filteredDevices' = filtered
      /\ UNCHANGED <<searchInput, env, boundary, localStorage, client, depths, mockDevices, selectedNodeId, isSearching>>
      /\ Render(term, filtered)
      /\ lastAction' = "performSearch"
      /\ returned' = <<>>

clearSelection ==
  /\ selectedNodeId' = null
  /\ UNCHANGED <<searchInput, env, boundary, localStorage, client, depths, mockDevices, searchTerm, filteredDevices, isSearching>>
  /\ Render(searchTerm, filteredDevices)
  /\ lastAction' = "clearSelection"
  /\ returned' = <<>>

clearSearch ==
  /\ searchTerm' = <<>>
  /\ filteredDevices' = <<>>
  /\ isSearching' = FALSE
  /\ UNCHANGED <<searchInput, env, boundary, localStorage, client, depths, mockDevices, selectedNodeId>>
  /\ Render(<<>>, <<>>)
  /\ lastAction' = "clearSearch"
  /\ returned' = <<>>

resetStore ==
  /\ selectedNodeId' = initialState.selectedNodeId
  /\ searchTerm' = initialState.searchTerm
  /\ filteredDevices' = initialState.filteredDevices
  /\ isSearching' = initialState.isSearching
  /\ UNCHANGED <<searchInput, env, boundary, localStorage, client, depths, mockDevices>>
  /\ Render(initialState.searchTerm, initialState.filteredDevices)
  /\ lastAction' = "resetStore"
  /\ returned' = <<>>

\* A read that consumes the search result it returns.
readDisplayDevicesConsuming ==
  /\ returned' = <<getDisplayDevices>>
  /\ lastAction' = "getDisplayDevices"
  /\ filteredDevices' = <<>>
  /\ UNCHANGED <<searchInput, env, boundary, localStorage, client, depths, mockDevices, selectedNodeId, searchTerm, isSearching, nodes, edges, layout>>

\* A caller reads the displayed devices: the store is only read.
readDisplayDevices ==
  /\ returned' = <<getDisplayDevices>>
  /\ lastAction' = "getDisplayDevices"
  /\ UNCHANGED <<searchInput, env, boundary, localStorage, client, depths, mockDevices, selectedNodeId, searchTerm, filteredDevices,
                 isSearching, nodes, edges, layout>>

Next ==
  \/ \E id \in SelectionInputs : setSelectedNode(id)
  \/ \E term \in QueryInputs : setSearchTerm(term)
  \/ \E devices \in DeviceListInputs : setFilteredDevices(devices)
  \/ \E loading \in BOOLEAN : setIsSearching(loading)
  \/ \E term \in QueryInputs : performSearch(term)
  \/ clearSelection
  \/ clearSearch
  \/ resetStore
  \/ readDisplayDevices

Spec ==
  Init /\ [][Next]_vars

(***************************************************************************)
(* Properties of the store and of what it hands to the renderer            *)
(***************************************************************************)

\* The K-numbers of a device list, and the ids of the visible nodes.
kNumbersOf(devices) ==
  {devices[i].kNumber : i \in 1..Len(devices)}

visibleNodeIds ==
  {nodes[i].id : i \in 1..Len(nodes)}

\* The devices of the dataset that match a term of at least two characters.
matchedIds(term) ==
  {mockDevices[i].kNumber : i \in
     {j \in 1..Len(mockDevices) : deviceMatches(mockDevices[j], toLowerCase(term))}}

\* C1: in every state reached by the public actions of the store, the matched
\* set is the one derived from the current query.  The matched set is read as
\* the store's own reader gives it (getDisplayDevices: the whole dataset while
\* no search term is set), so the empty list of the initial and the cleared
\* state is not held against the claim.
C1_MatchedSetDerivedFromQuery ==
  getDisplayDevices = filterDevices(mockDevices, searchTerm)

\* C2: after any performSearch with a non-empty query, every edge handed to
\* the renderer has its source and its target among the visible nodes.
C2_VisibleEdgesHaveVisibleEndpoints ==
  (lastAction = "performSearch" /\ searchTerm # <<>>) =>
    \A i \in 1..Len(edges) :
      edges[i].source \in visibleNodeIds /\ edges[i].target \in visibleNodeIds

\* C3: for the graph of K861712, K921156 and K021234, after the query "K92"
\* the matched set is exactly {K921156} and the visible edge set is empty.
C3_EndToEndK92 ==
  (mockDevices = ThreeDevices /\ lastAction = "performSearch"
     /\ searchTerm = <<"K","9","2">>) =>
    /\ kNumbersOf(filteredDevices) = {K921156}
    /\ edges = <<>>

\* C4: after performSearch(q) with q of at least 2 characters, the visible
\* nodes are exactly the devices that match q themselves; a predicate or a
\* dependent of a match that does not match is not visible.
C4_VisibleNodesAreTheMatches ==
  (lastAction = "performSearch" /\ Len(searchTerm) >= MinSearchLength) =>
    /\ visibleNodeIds = matchedIds(searchTerm)
    /\ Len(nodes) = Cardinality(matchedIds(searchTerm))

\* C4 witness: a search left a match visible whose predicate is filtered out.
C4_Witness ==
  /\ lastAction = "performSearch"
  /\ Len(searchTerm) >= MinSearchLength
  /\ \E i \in 1..Len(filteredDevices) :
       \E j \in 1..Len(filteredDevices[i].predicateDevices) :
         /\ filteredDevices[i].predicateDevices[j] \in kNumbersOf(mockDevices)
         /\ filteredDevices[i].predicateDevices[j] \notin visibleNodeIds
         /\ filteredDevices[i].kNumber \in visibleNodeIds

\* C7: setSelectedNode with an id that is the K-number of no device of the
\* graph leaves selectedNodeId unchanged.
C7_UnknownSelectionIsNoOp ==
  [][\A id \in SelectionInputs :
       (id # null /\ id \notin kNumbersOf(mockDevices) /\ setSelectedNode(id))
         => selectedNodeId' = selectedNodeId]_vars

\* C8: reading the displayed devices never changes the store, and a read
\* that follows a read with nothing in between returns an equal result.
C8_ReadIsStableAndReadOnly ==
  [][(lastAction' = "getDisplayDevices") =>
       /\ UNCHANGED storeVars
       /\ (lastAction = "getDisplayDevices" => returned' = returned)]_vars

\* C8 witness: a read returned the non-empty result of a search.
C8_Witness ==
  /\ lastAction = "getDisplayDevices"
  /\ searchTerm # <<>>
  /\ returned = <<filteredDevices>>
  /\ Len(filteredDevices) > 0

\* C20: no action of the store changes the device dataset or a device
\* record, and what performSearch leaves as the matched set is determined by
\* the query and the dataset alone, whatever the store held before: the
\* records of the dataset that match a query of two or more characters, and
\* all records for a shorter query.  Hence the same query gives the same matched set each
\* time, and a performSearch that repeats the query of the performSearch
\* before it changes nothing.
C20_SearchIsPureAndDatasetIsFrozen ==
  [][/\ mockDevices' = mockDevices
     /\ lastAction' = "performSearch" =>
          /\ kNumbersOf(filteredDevices') =
               (IF Len(searchTerm') >= MinSearchLength
                  THEN matchedIds(searchTerm')
                  ELSE kNumbersOf(mockDevices))
          /\ \A i \in 1..Len(filteredDevices') :
               \E j \in 1..Len(mockDevices) : filteredDevices'[i] = mockDevices[j]
          /\ (lastAction = "performSearch" /\ searchTerm = searchTerm') =>
               filteredDevices' = filteredDevices]_vars

\* C20 witness: on the built-in dataset a search, made after the store held
\* another device list, matched some devices and not all.
C20_Witness ==
  /\ mockDevices = BuiltInDevices
  /\ lastAction = "performSearch"
  /\ Len(searchTerm) >= MinSearchLength
  /\ Len(filteredDevices) > 0
  /\ Len(filteredDevices) < Len(mockDevices)
  /\ selectedNodeId # null

\* C21: selection and search are independent.  setSelectedNode and
\* clearSelection leave searchTerm, filteredDevices and isSearching as they
\* are, setSelectedNode(id) ends with id selected (null for null) and
\* clearSelection with null; performSearch and clearSearch leave
\* selectedNodeId as it is, also when the selected device is not matched.
C21_SelectionAndSearchAreIndependent ==
  [][/\ lastAction' \in {"setSelectedNode", "clearSelection"} =>
          UNCHANGED <<searchTerm, filteredDevices, isSearching>>
     /\ \A id \in SelectionInputs : setSelectedNode(id) => selectedNodeId' = id
     /\ lastAction' = "clearSelection" => selectedNodeId' = null
     /\ lastAction' \in {"performSearch", "clearSearch"} =>
          selectedNodeId' = selectedNodeId]_vars

\* C21 witness: a search left a device selected that is in the dataset and
\* not among the matches, so that the details panel still shows it.
C21_Witness ==
  /\ lastAction = "performSearch"
  /\ Len(searchTerm) >= MinSearchLength
  /\ selectedNodeId \in kNumbersOf(mockDevices)
  /\ selectedNodeId \notin kNumbersOf(filteredDevices)
  /\ Len(filteredDevices) > 0

(***************************************************************************)
(* The filter on arbitrary device lists                                    *)
(***************************************************************************)

\* The largest number of devices of a generated device list.
MaxDevices ==
  2

\* A field value no query of two or more characters is included in.
Filler ==
  <<"-">>

\* The field values that queries are matched against.
FieldInputs ==
  { <<"x","a","B">>, <<"b","a">> }

\* The fields the filter looks at: four of free text and the product class.
FreeTextFields ==
  {"kNumber", "deviceName", "manufacturer", "panelType"}

SearchableFields ==
  FreeTextFields \cup {"productClass"}

\* The devices lists are made of.  In the first set one free-text field holds
\* a value of FieldInputs and the others the filler, with product class I; the
\* devices of the second set are of class II and III; the devices of the
\* third set have no panelType.
DevicePool ==
  {[[kNumber |-> Filler, deviceName |-> Filler, manufacturer |-> Filler,
     productClass |-> <<"I">>, panelType |-> Filler, predicateDevices |-> <<>>]
      EXCEPT ![f] = v] : f \in FreeTextFields, v \in FieldInputs}
  \cup
  {[kNumber |-> Filler, deviceName |-> Filler, manufacturer |-> Filler,
    productClass |-> c, panelType |-> Filler, predicateDevices |-> <<>>] :
      c \in {<<"I","I">>, <<"I","I","I">>}}
  \cup
  {[kNumber |-> v, deviceName |-> Filler, manufacturer |-> Filler,
    productClass |-> <<"I">>, predicateDevices |-> <<>>] : v \in FieldInputs \cup {Filler}}

FilterDatasets ==
  UNION {[1..n -> DevicePool] : n \in 0..MaxDevices}

\* The queries searched for in the generated lists.
FilterQueries ==
  { <<>>, <<"a">>, <<"B">>, <<"-">>,
    <<"a","b">>, <<"A","B">>, <<"a","B">>, <<"A","b">>,
    <<"b","a">>, <<"x","a">>, <<"x","a","b">>, <<"X","A","B">>, <<"b","x">>,
    <<"i","i">>, <<"I","I","I">> }

InitFilter ==
  /\ mockDevices \in FilterDatasets
  /\ InitStore

NextFilter ==
  \/ \E term \in FilterQueries : performSearch(term)
  \/ clearSearch
  \/ readDisplayDevices

SpecFilter ==
  InitFilter /\ [][NextFilter]_vars

\* Two characters are the same letter when they are equal or the upper- and
\* the lower-case form of one letter.
sameLetter(a, b) ==
  a = b \/ \E i \in 1..26 : {a, b} = {UpperCase[i], LowerCase[i]}

\* q occurs in s at some offset, letter case set aside.
containsIgnoringCase(s, q) ==
  \E off \in 0..(Len(s) - Len(q)) : \A j \in 1..Len(q) : sameLetter(s[off + j], q[j])

\* The device has a searchable field that contains q, letter case set aside.
matchesIgnoringCase(device, q) ==
  \E f \in SearchableFields \cap DOMAIN device : containsIgnoringCase(device[f], q)

\* C5: for every device list and every query of length 0 or 1 the query is
\* no filter: after performSearch with it the matched set is the whole list,
\* and so is the set displayed (by the store's reader and in the canvas).
C5_ShortQueryIsNoFilter ==
  (lastAction = "performSearch" /\ Len(searchTerm) < MinSearchLength) =>
    /\ filteredDevices = mockDevices
    /\ getDisplayDevices = mockDevices
    /\ [i \in 1..Len(nodes) |-> nodes[i].id] = [i \in 1..Len(mockDevices) |-> mockDevices[i].kNumber]

\* C5 witness: a one-character query was searched in a list with a device
\* that does not contain that character, and the device is still displayed.
C5_Witness ==
  /\ lastAction = "performSearch"
  /\ Len(searchTerm) = 1
  /\ \E i \in 1..Len(mockDevices) : ~matchesIgnoringCase(mockDevices[i], searchTerm)
  /\ Len(nodes) = Len(mockDevices)

mathMax(arr) ==
  CHOOSE m \in {arr[i] : i \in 1..Len(arr)} : \A i \in 1..Len(arr) : arr[i] <= m

\* Array.prototype.find by K-number: the index of the first device with that
\* K-number, 0 when there is none (find returns undefined).
findIndex(devices, kNumber) ==
  IF \E i \in 1..Len(devices) : devices[i].kNumber = kNumber
    THEN CHOOSE i \in 1..Len(devices) :
           /\ devices[i].kNumber = kNumber
           /\ \A j \in 1..(i - 1) : devices[j].kNumber # kNumber
    ELSE 0

\* A depth that follows the first predicate only.
RECURSIVE getDeviceDepthFirstPredicate(_)
getDeviceDepthFirstPredicate(device) ==
  IF Len(device.predicateDevices) = 0
    THEN 0
    ELSE LET k == findIndex(mockDevices, device.predicateDevices[1])
         IN  (IF k # 0 THEN getDeviceDepthFirstPredicate(mockDevices[k]) ELSE 0) + 1

\* A depth that takes the shallowest predicate instead of the deepest.
RECURSIVE getDeviceDepthMin(_)
getDeviceDepthMin(device) ==
  IF Len(device.predicateDevices) = 0
    THEN 0
    ELSE LET predicateDepths ==
               [j \in 1..Len(device.predicateDevices) |->
                  LET k == findIndex(mockDevices, device.predicateDevices[j])
                  IN  IF k # 0 THEN getDeviceDepthMin(mockDevices[k]) ELSE 0]
         IN  (CHOOSE m \in {predicateDepths[i] : i \in 1..Len(predicateDepths)} :
                \A i \in 1..Len(predicateDepths) : m <= predicateDepths[i]) + 1

\* getDeviceDepth: 0 without predicates, else one more than the deepest
\* predicate, a predicate that is not in the dataset counting as 0.  The
\* recursion ends on acyclic citations only.
RECURSIVE getDeviceDepth(_)
getDeviceDepth(device) ==
  IF Len(device.predicateDevices) = 0
    THEN 0
    ELSE LET predicateDepths ==
               [j \in 1..Len(device.predicateDevices) |->
                  LET k == findIndex(mockDevices, device.predicateDevices[j])
                  IN  IF k # 0 THEN getDeviceDepth(mockDevices[k]) ELSE 0]
         IN  mathMax(predicateDepths) + 1

\* The largest number of devices of a generated citation graph.
MaxGraphNodes ==
  3

Digits ==
  <<"0","1","2","3","4","5","6","7","8","9">>

\* The K-number of the i-th generated device; NodeId(0) is the K-number of
\* no device.
NodeId(i) ==
  <<"N", Digits[i + 1]>>

\* The K-numbers of a set of device numbers, in ascending order.
RECURSIVE nodeIdsOf(_)
nodeIdsOf(S) ==
  IF S = {}
    THEN <<>>
    ELSE LET m == CHOOSE x \in S : \A y \in S : x <= y
         IN  <<NodeId(m)>> \o nodeIdsOf(S \ {m})

\* No device of S cites itself directly or through others: some device of S
\* cites none of S, and so on for the rest.
RECURSIVE acyclicOn(_, _)
acyclicOn(S, cites) ==
  \/ S = {}
  \/ /\ \E x \in S : cites[x] \cap S = {}
     /\ acyclicOn(S \ {CHOOSE x \in S : cites[x] \cap S = {}}, cites)

\* The device list of n devices in which device i cites the devices cites[i].
graphDevices(n, cites) ==
  [i \in 1..n |->
     [kNumber |-> NodeId(i), deviceName |-> Filler, manufacturer |-> Filler,
      productClass |-> <<"I">>, panelType |-> Filler,
      predicateDevices |-> nodeIdsOf(cites[i])]]

\* Every acyclic citation graph of at most MaxGraphNodes devices, a citation
\* of the missing device 0 included.
GraphDatasets ==
  UNION {{graphDevices(n, cites) :
            cites \in {c \in [1..n -> SUBSET (0..n)] : acyclicOn(1..n, c)}} :
         n \in 0..MaxGraphNodes}

InitDepth ==
  /\ mockDevices \in GraphDatasets \cup {BuiltInDevices, ThreeDevices}
  /\ InitStore

\* getDeviceDepth is called for the next device of the dataset.
computeDeviceDepth ==
  /\ Len(depths) < Len(mockDevices)
  /\ depths' = Append(depths, getDeviceDepth(mockDevices[Len(depths) + 1]))
  /\ returned' = <<getDeviceDepth(mockDevices[Len(depths) + 1])>>
  /\ lastAction' = "getDeviceDepth"
  /\ UNCHANGED <<searchInput, env, boundary, localStorage, client, mockDevices, selectedNodeId, searchTerm, filteredDevices,
                 isSearching, nodes, edges, layout>>

NextDepth ==
  computeDeviceDepth

SpecDepth ==
  InitDepth /\ [][NextDepth]_vars

\* Every citation of the dataset names a device of the dataset.
noDanglingCitation ==
  \A i \in 1..Len(mockDevices) :
    \A j \in 1..Len(mockDevices[i].predicateDevices) :
      findIndex(mockDevices, mockDevices[i].predicateDevices[j]) # 0

\* The indices of the devices that device i cites.
predicateIndices(i) ==
  {k \in 1..Len(mockDevices) :
     arrayIncludes(mockDevices[i].predicateDevices, mockDevices[k].kNumber)}

\* One round of relaxation: a device is ranked above each of its predicates.
relax(rank) ==
  [i \in 1..Len(mockDevices) |->
     mathMax(<<rank[i]>> \o [k \in 1..Len(mockDevices) |->
                              IF k \in predicateIndices(i) THEN rank[k] + 1 ELSE 0])]

RECURSIVE relaxTimes(_, _)
relaxTimes(rank, n) ==
  IF n = 0 \/ relax(rank) = rank THEN rank ELSE relaxTimes(relax(rank), n - 1)

\* The length of the longest citation path that ends in each device, by
\* relaxing until nothing changes, at most as many times as there are devices.
longestPath ==
  relaxTimes([i \in 1..Len(mockDevices) |-> 0], Len(mockDevices))

\* C9: for every edge (p, d) of the graph (d cites p) the depth computed for
\* d is strictly greater than the depth computed for p; the built-in dataset
\* is one of the graphs.
C9_DepthGrowsAlongEdges ==
  \A i \in 1..Len(depths) :
    \A k \in 1..Len(depths) :
      k \in predicateIndices(i) => depths[i] > depths[k]

\* C9 witness: the depths of the whole built-in dataset are computed and
\* K123456, which cites K021234 and K921156, is at depth 3.
C9_Witness ==
  /\ mockDevices = BuiltInDevices
  /\ Len(depths) = Len(mockDevices)
  /\ depths[findIndex(mockDevices, K123456)] = 3

\* C10: the depth of a device is the length of the longest path from a root
\* to it: 0 without predicates, else 1 + the greatest depth of its
\* predicates; K861712, K921156 and K021234 are at depths 0, 1 and 2.
C10_DepthIsLongestPath ==
  (Len(depths) = Len(mockDevices) /\ noDanglingCitation) =>
    /\ depths = longestPath
    /\ \A i \in 1..Len(depths) :
         depths[i] = IF Len(mockDevices[i].predicateDevices) = 0
                       THEN 0
                       ELSE 1 + mathMax([j \in 1..Len(mockDevices[i].predicateDevices) |->
                                  depths[findIndex(mockDevices, mockDevices[i].predicateDevices[j])]])
    /\ \A i \in 1..Len(depths) :
         /\ mockDevices[i].kNumber = K861712 => depths[i] = 0
         /\ mockDevices[i].kNumber = K921156 => depths[i] = 1
         /\ mockDevices[i].kNumber = K021234 => depths[i] = 2

\* C10 witness: the depths of the three devices are computed: 0, 1 and 2.
C10_Witness ==
  /\ mockDevices = ThreeDevices
  /\ depths = <<0, 1, 2>>

(***************************************************************************)
(* The data source: environment, API client and data provider              *)
(***************************************************************************)

\* shouldUseAPI: never in mock mode, always in api mode, in hybrid mode when
\* an API key is configured.
shouldUseAPI ==
  CASE env.dataMode = "mock" -> FALSE
    [] env.dataMode = "api" -> TRUE
    [] env.dataMode = "hybrid" -> env.fdaApiKey
    [] OTHER -> FALSE

\* Array.prototype.slice(0, limit) when a limit is given (if (limit)).
sliceToLimit(devices, params) ==
  IF "limit" \in DOMAIN params /\ params.limit # 0
    THEN SubSeq(devices, 1, IF params.limit < Len(devices) THEN params.limit ELSE Len(devices))
    ELSE devices

\* getMockResponse of the API client: the built-in dataset, filtered by the
\* search term when one is given (device name, manufacturer, K-number) and
\* cut to the limit.  The calls modelled pass no product class and no
\* manufacturer filter.
getMockResponse(filters) ==
  LET searched ==
        IF "searchTerm" \in DOMAIN filters /\ filters.searchTerm # <<>>
          THEN LET term == toLowerCase(filters.searchTerm)
               IN  SelectSeq(mockDevices, LAMBDA device :
                     \/ includes(toLowerCase(device.deviceName), term)
                     \/ includes(toLowerCase(device.manufacturer), term)
                     \/ includes(toLowerCase(device.kNumber), term))
          ELSE mockDevices
      limited == sliceToLimit(searched, filters)
  IN  [devices |-> limited, total |-> Len(limited), source |-> "mock", error |-> "none"]

\* getMockDevices of the data provider: the built-in dataset, filtered by
\* the search when one is given (K-number, device name, manufacturer,
\* intended use, and panel type when the device has one), after skip and
\* limit.  The calls modelled pass no product class and no panel type.
getMockDevices(params) ==
  LET searched ==
        IF "search" \in DOMAIN params /\ params.search # <<>>
          THEN LET searchLower == toLowerCase(params.search)
               IN  SelectSeq(mockDevices, LAMBDA device :
                     \/ includes(toLowerCase(device.kNumber), searchLower)
                     \/ includes(toLowerCase(device.deviceName), searchLower)
                     \/ includes(toLowerCase(device.manufacturer), searchLower)
                     \/ includes(toLowerCase(device.intendedUse), searchLower)
                     \/ IF "panelType" \in DOMAIN device
                          THEN includes(toLowerCase(device.panelType), searchLower)
                          ELSE FALSE)
          ELSE mockDevices
      skipped == IF "skip" \in DOMAIN params /\ params.skip # 0
                   THEN SubSeq(searched, params.skip + 1, Len(searched))
                   ELSE searched
      limited == sliceToLimit(skipped, params)
  IN  [devices |-> limited, source |-> "mock", totalCount |-> Len(limited), error |-> "none"]

\* The device lists an API response holds, already in the form of
\* transformDevices: a device that is not in the built-in dataset, or none.
ApiResults ==
  { <<>>,
    <<[kNumber |-> NodeId(1), deviceName |-> Filler, manufacturer |-> Filler,
       productClass |-> <<"I","I">>, predicateDevices |-> <<NodeId(0)>>]>> }

\* What becomes of a request that is sent: a response with results and the
\* total the API reports for the query; an HTTP error status; the abort after
\* 10 s; a network error of fetch; a body that is not JSON; or a JSON body
\* that has no results array.
NetworkOutcomes ==
  {[kind |-> "ok", status |-> 200, results |-> r, total |-> 2 * Len(r)] : r \in ApiResults}
    \cup {[kind |-> "httpError", status |-> s, results |-> <<>>, total |-> 0] : s \in {404, 500}}
    \cup {[kind |-> k, status |-> 0, results |-> <<>>, total |-> 0] :
            k \in {"timeout", "networkError"}}
    \cup {[kind |-> k, status |-> 200, results |-> <<>>, total |-> 0] :
            k \in {"invalidJson", "missingResults"}}

\* The window of the rate limiter: 24 hours, in ms.
WindowMs ==
  86400000

\* The step of the wall clock (ms) between two looks at the rate limiter.
RateClockStepMs ==
  43200000

\* The largest number of requests sent that the clock is followed for.
MaxFetches ==
  3



\* The entries of the rate limiter that are inside the window: those younger
\* than windowMs (now - time < windowMs).  An entry is held as its age.
requestsInWindow(requests) ==
  SelectSeq(requests, LAMBDA age : age < WindowMs)

\* A canMakeRequest that lets the request through that reaches the limit.
canMakeRequestAtLimit(limiter) ==
  LET kept == requestsInWindow(limiter.requests)
  IN  [allowed |-> Len(kept) <= env.rateLimit,
       client |-> [limiter EXCEPT !.requests = kept]]

\* RateLimiter.canMakeRequest: the entries outside the window are removed,
\* and a request is allowed while fewer than maxRequests remain.
canMakeRequest(limiter) ==
  LET kept == requestsInWindow(limiter.requests)
  IN  [allowed |-> Len(kept) < env.rateLimit,
       client |-> [limiter EXCEPT !.requests = kept]]

\* RateLimiter.getStatus: the entries outside the window are removed; what
\* remains of the limit, and the limit.
getStatus(limiter) ==
  LET kept == requestsInWindow(limiter.requests)
  IN  [remaining |-> IF env.rateLimit > Len(kept) THEN env.rateLimit - Len(kept) ELSE 0,
       total |-> env.rateLimit,
       client |-> [limiter EXCEPT !.requests = kept]]

\* checkRateLimit: throws the error of status 429 when no request can be
\* made (the status is read for the message of the error).
checkRateLimit(limiter) ==
  LET can == canMakeRequest(limiter)
  IN  IF can.allowed
        THEN [threw |-> FALSE, client |-> can.client]
        ELSE [threw |-> TRUE, client |-> getStatus(can.client).client]

\* RateLimiter.recordRequest: an entry of the present time.
recordRequest(limiter) ==
  [limiter EXCEPT !.requests = Append(@, 0)]

\* The code of an error made by createError: HTTP_<status> for a status that
\* is set and not 0, API_ERROR otherwise.
errorCode(status) ==
  CASE status = 429 -> "HTTP_429"
    [] status = 404 -> "HTTP_404"
    [] status = 408 -> "HTTP_408"
    [] status = 500 -> "HTTP_500"
    [] OTHER -> "API_ERROR"

\* makeRequest with the outcome of the request if it is sent: the rate limit
\* is checked, the request is recorded and sent with fetch; every failure
\* is thrown as an API error: 429 from the rate limit (nothing recorded or
\* sent), the status of an HTTP error, 408 for the abort after 10 s, 0 for a
\* network error of fetch, and no status for a body that is not JSON.
makeRequest(outcome, limiter) ==
  LET checked == checkRateLimit(limiter)
      sent == [recordRequest(checked.client) EXCEPT !.fetches = @ + 1]
  IN  IF checked.threw
        THEN [threw |-> TRUE, status |-> 429, code |-> errorCode(429),
              data |-> outcome, client |-> checked.client]
        ELSE CASE outcome.kind = "httpError" ->
                    [threw |-> TRUE, status |-> outcome.status,
                     code |-> errorCode(outcome.status), data |-> outcome, client |-> sent]
               [] outcome.kind = "timeout" ->
                    [threw |-> TRUE, status |-> 408, code |-> errorCode(408),
                     data |-> outcome, client |-> sent]
               [] outcome.kind = "networkError" ->
                    [threw |-> TRUE, status |-> 0, code |-> errorCode(0),
                     data |-> outcome, client |-> sent]
               [] outcome.kind = "invalidJson" ->
                    [threw |-> TRUE, status |-> -1, code |-> errorCode(-1),
                     data |-> outcome, client |-> sent]
               [] OTHER ->
                    [threw |-> FALSE, status |-> outcome.status, code |-> "none",
                     data |-> outcome, client |-> sent]

\* A fetchDevices that goes to the API whatever the data mode is.
fetchDevicesInEveryMode(filters, outcome, limiter) ==
  LET checked == checkRateLimit(limiter)
      request == makeRequest(outcome, checked.client)
  IN  IF checked.threw
        THEN [response |-> [getMockResponse(filters) EXCEPT !.error = errorCode(429)],
              client |-> checked.client]
        ELSE IF request.threw
          THEN [response |-> [getMockResponse(filters) EXCEPT !.error = request.code],
                client |-> request.client]
          ELSE IF request.data.kind = "missingResults"
            THEN [response |-> [getMockResponse(filters) EXCEPT !.error = "TypeError"],
                  client |-> request.client]
            ELSE [response |-> [devices |-> request.data.results,
                                total |-> request.data.total,
                                source |-> "api", error |-> "none"],
                  client |-> request.client]

\* A fetchDevices that lets the error of a failed request escape.
fetchDevicesRejecting(filters, outcome, limiter) ==
  IF env.dataMode = "mock"
    THEN [response |-> getMockResponse(filters), client |-> limiter]
    ELSE LET checked == checkRateLimit(limiter)
             request == makeRequest(outcome, checked.client)
         IN  IF checked.threw
               THEN [response |-> [getMockResponse(filters) EXCEPT !.error = errorCode(429)],
                     client |-> checked.client]
               ELSE IF request.threw
                 THEN [response |-> [devices |-> <<>>, total |-> 0,
                                     source |-> "rejected", error |-> request.code],
                       client |-> request.client]
                 ELSE IF request.data.kind = "missingResults"
                   THEN [response |-> [getMockResponse(filters) EXCEPT !.error = "TypeError"],
                         client |-> request.client]
                   ELSE [response |-> [devices |-> request.data.results,
                                       total |-> request.data.total,
                                       source |-> "api", error |-> "none"],
                         client |-> request.client]

\* fetchDevices of the API client, with the outcome of the request if one is
\* sent and the state of the client before the call; the result is the
\* response and the state of the client after the call.  In mock mode the
\* mock response is returned at once.  Otherwise the rate limit is checked
\* and the request made, and the results are transformed; whatever is thrown
\* on the way (the rate limit, a failed request, the TypeError of a body
\* without results) is caught and answered with the mock response and the
\* error.
fetchDevices(filters, outcome, limiter) ==
  IF env.dataMode = "mock"
    THEN [response |-> getMockResponse(filters), client |-> limiter]
    ELSE LET checked == checkRateLimit(limiter)
             request == makeRequest(outcome, checked.client)
         IN  IF checked.threw
               THEN [response |-> [getMockResponse(filters) EXCEPT !.error = errorCode(429)],
                     client |-> checked.client]
               ELSE IF request.threw
                 THEN [response |-> [getMockResponse(filters) EXCEPT !.error = request.code],
                       client |-> request.client]
                 ELSE IF request.data.kind = "missingResults"
                   THEN [response |-> [getMockResponse(filters) EXCEPT !.error = "TypeError"],
                         client |-> request.client]
                   ELSE [response |-> [devices |-> request.data.results,
                                       total |-> request.data.total,
                                       source |-> "api", error |-> "none"],
                         client |-> request.client]

\* getDevices of the data provider: through the API client when shouldUseAPI
\* says so (the search and the limit are handed on as filters), else the
\* mock devices.
getDevices(params, outcome, limiter) ==
  IF shouldUseAPI
    THEN LET filters == CASE "search" \in DOMAIN params /\ "limit" \in DOMAIN params ->
                               [searchTerm |-> params.search, limit |-> params.limit]
                          [] "search" \in DOMAIN params -> [searchTerm |-> params.search]
                          [] "limit" \in DOMAIN params -> [limit |-> params.limit]
                          [] OTHER -> [none |-> 0]
             api == fetchDevices(filters, outcome, limiter)
         IN  [response |-> [devices |-> api.response.devices,
                            source |-> api.response.source,
                            totalCount |-> api.response.total,
                            error |-> api.response.error],
              client |-> api.client]
    ELSE [response |-> getMockDevices(params), client |-> limiter]

\* Array.prototype.find by K-number.  A result that is a device or null is
\* written as the list of that device, which is empty for null.
findDevice(devices, kNumber) ==
  IF findIndex(devices, kNumber) # 0 THEN <<devices[findIndex(devices, kNumber)]>> ELSE <<>>

\* getDeviceByKNumber of the API client: fetchDevices with the K-number as
\* search term and limit 1, and among the devices of the answer the one with
\* that K-number, or null.  (fetchDevices does not throw, so the catch that
\* looks the device up in the mock devices is not entered.)
fdaAPIClientGetDeviceByKNumber(kNumber, outcome, limiter) ==
  LET result == fetchDevices([searchTerm |-> kNumber, limit |-> 1], outcome, limiter)
  IN  [response |-> [device |-> findDevice(result.response.devices, kNumber),
                     source |-> result.response.source,
                     error |-> result.response.error],
       client |-> result.client]

\* getDeviceByKNumber of the data provider: through getDeviceByKNumber of the
\* API client (fetchDevices with the K-number as search term and limit 1)
\* when shouldUseAPI says so, else among the devices of getDevices().
getDeviceByKNumber(kNumber, outcome, limiter) ==
  IF shouldUseAPI
    THEN LET api == fdaAPIClientGetDeviceByKNumber(kNumber, outcome, limiter)
         IN  [response |-> api.response.device, client |-> api.client]
    ELSE LET got == getDevices([none |-> 0], outcome, limiter)
         IN  [response |-> findDevice(got.response.devices, kNumber), client |-> got.client]

\* The parameters and filters of the calls, and the K-numbers asked for.
ParamInputs ==
  { [none |-> 0], [limit |-> 1], [skip |-> 1] }

FilterInputs ==
  { [none |-> 0], [limit |-> 1], [searchTerm |-> <<"K","9","2">>] }

KNumberInputs ==
  { K921156, NodeId(1), NonexistentId }

\* A call of a method of the data provider or the API client, from the call
\* to the answer: the only state the call shares with other calls is the
\* rate limiter, which is checked and written before the request is sent.
callGetDevices(params) ==
  \E outcome \in NetworkOutcomes :
    LET got == getDevices(params, outcome, client)
    IN  /\ returned' = <<got.response>>
        /\ client' = got.client
        /\ lastAction' = "getDevices"
        /\ UNCHANGED <<searchInput, env, boundary, localStorage, depths, mockDevices, selectedNodeId, searchTerm,
                       filteredDevices, isSearching, nodes, edges, layout>>

\* fetchDevices is called; next to the response, what became of the request
\* is kept ("notSent" when none was sent).
callFetchDevices(filters) ==
  \E outcome \in NetworkOutcomes :
    LET got == fetchDevices(filters, outcome, client)
    IN  /\ returned' = <<got.response,
                         IF got.client.fetches > client.fetches THEN outcome.kind ELSE "notSent">>
        /\ client' = got.client
        /\ lastAction' = "fetchDevices"
        /\ UNCHANGED <<searchInput, env, boundary, localStorage, depths, mockDevices, selectedNodeId, searchTerm,
                       filteredDevices, isSearching, nodes, edges, layout>>

callGetDeviceByKNumber(kNumber) ==
  \E outcome \in NetworkOutcomes :
    LET got == getDeviceByKNumber(kNumber, outcome, client)
    IN  /\ returned' = <<got.response>>
        /\ client' = got.client
        /\ lastAction' = "getDeviceByKNumber"
        /\ UNCHANGED <<searchInput, env, boundary, localStorage, depths, mockDevices, selectedNodeId, searchTerm,
                       filteredDevices, isSearching, nodes, edges, layout>>

(***************************************************************************)
(* The canvas and the data provider on arbitrary record sets               *)
(***************************************************************************)

\* The predicateDevices of a generated record: at most two citations among
\* N0 (the K-number of no record), N1 and N2, a repeated citation included.
CitationLists ==
  {<<>>}
  \cup {<<NodeId(a)>> : a \in 0..2}
  \cup {<<NodeId(a), NodeId(b)>> : a \in 0..2, b \in 0..2}

\* The record sets of zero, one and two records N1, N2 with these citations,
\* as an API response can hold them: a record may cite itself, the other
\* record, a record that is not in the set, or the same record twice.
RecordSets ==
  UNION {{[i \in 1..n |->
             [kNumber |-> NodeId(i), deviceName |-> Filler, manufacturer |-> Filler,
              productClass |-> <<"I">>, panelType |-> Filler,
              predicateDevices |-> c[i]]] :
            c \in [1..n -> CitationLists]} :
         n \in 0..2}

\* The queries searched for in the record sets.
GraphQueries ==
  { <<"N">>, <<"N","1">>, <<"n","2">> }

\* getRelatedDevices of the data provider on the device list devices: the
\* device with that K-number, the devices it cites that are in the list (a
\* citation that find does not resolve is filtered out) and the devices that
\* cite it.
relatedDevices(devices, kNumber) ==
  LET k == findIndex(devices, kNumber)
  IN  IF k = 0
        THEN [device |-> <<>>, predicates |-> <<>>, dependents |-> <<>>]
        ELSE [device |-> <<devices[k]>>,
              predicates |->
                LET cited == devices[k].predicateDevices
                    found == SelectSeq([j \in 1..Len(cited) |-> findIndex(devices, cited[j])],
                                       LAMBDA m : m # 0)
                IN  [j \in 1..Len(found) |-> devices[found[j]]],
              dependents |->
                SelectSeq(devices, LAMBDA d : arrayIncludes(d.predicateDevices, kNumber))]

\* A caller asks the data provider for the devices related to kNumber: the
\* devices are those of getDevices().
getRelatedDevices(kNumber) ==
  \E outcome \in NetworkOutcomes :
    LET got == getDevices([none |-> 0], outcome, client)
    IN  /\ returned' = <<relatedDevices(got.response.devices, kNumber)>>
        /\ client' = got.client
        /\ lastAction' = "getRelatedDevices"
        /\ UNCHANGED <<searchInput, env, boundary, localStorage, depths, mockDevices, selectedNodeId, searchTerm,
                       filteredDevices, isSearching, nodes, edges, layout>>

\* The number of nested calls the call stack holds; one more call throws a
\* RangeError (Maximum call stack size exceeded).
MaxCallStack ==
  4

\* getDeviceDepth with the call stack of the engine: frames calls are on the
\* stack when device is looked at.  The result is the depth, or the
\* RangeError that a call beyond the stack throws and no caller catches.
RECURSIVE getDeviceDepthOnStack(_, _)
getDeviceDepthOnStack(device, frames) ==
  IF frames >= MaxCallStack
    THEN [threw |-> TRUE, value |-> 0]
    ELSE IF Len(device.predicateDevices) = 0
      THEN [threw |-> FALSE, value |-> 0]
      ELSE LET results ==
                 [j \in 1..Len(device.predicateDevices) |->
                    LET k == findIndex(mockDevices, device.predicateDevices[j])
                    IN  IF k # 0
                          THEN getDeviceDepthOnStack(mockDevices[k], frames + 1)
                          ELSE [threw |-> FALSE, value |-> 0]]
           IN  IF \E j \in 1..Len(results) : results[j].threw
                 THEN [threw |-> TRUE, value |-> 0]
                 ELSE [threw |-> FALSE,
                       value |-> mathMax([j \in 1..Len(results) |-> results[j].value]) + 1]

\* getDeviceDepth is called for the next device of a record set that may
\* cite in a cycle.
computeDeviceDepthOnStack ==
  /\ Len(depths) < Len(mockDevices)
  /\ depths' = Append(depths, getDeviceDepthOnStack(mockDevices[Len(depths) + 1], 0))
  /\ returned' = <<getDeviceDepthOnStack(mockDevices[Len(depths) + 1], 0)>>
  /\ lastAction' = "getDeviceDepth"
  /\ UNCHANGED <<searchInput, env, boundary, localStorage, client, mockDevices, selectedNodeId, searchTerm, filteredDevices,
                 isSearching, nodes, edges, layout>>

InitGraph ==
  /\ mockDevices \in RecordSets \cup {ThreeDevices}
  /\ InitStore

NextGraph ==
  \/ \E term \in GraphQueries : performSearch(term)
  \/ clearSearch
  \/ \E id \in {NodeId(1), NodeId(2)} : getRelatedDevices(id)
  \/ computeDeviceDepthOnStack

SpecGraph ==
  InitGraph /\ [][NextGraph]_vars

\* Some device of the dataset cites itself, directly or through others.
citationCycle ==
  ~acyclicOn(1..Len(mockDevices), [i \in 1..Len(mockDevices) |-> predicateIndices(i)])

\* C11: a record set whose citations contain a directed cycle is rejected:
\* no graph (nodes, edges) and no rank is produced from it.
C11_CyclicRecordSetIsRejected ==
  citationCycle =>
    /\ nodes = <<>>
    /\ edges = <<>>
    /\ \A i \in 1..Len(depths) : depths[i].threw \* an error, never a rank

\* C12: a record set with a citation of an id that no record has is
\* rejected; no edge to a non-existent node is ever produced, and the
\* citation is not silently dropped from the predicates of the device.
C12_DanglingCitationIsRejected ==
  /\ ~noDanglingCitation => (nodes = <<>> /\ edges = <<>>)
  /\ \A i \in 1..Len(edges) : edges[i].source \in kNumbersOf(mockDevices)
  /\ (lastAction = "getRelatedDevices" /\ returned[1].device # <<>>) =>
       Len(returned[1].predicates) = Len(returned[1].device[1].predicateDevices)

(***************************************************************************)
(* The layout on device lists around the node limit of dagre               *)
(***************************************************************************)

\* The K-number of the v-th device of a large list: K and three digits.
largeListKNumber(v) ==
  <<"K", Digits[(v \div 100) + 1], Digits[((v \div 10) % 10) + 1], Digits[(v % 10) + 1]>>

\* A list of n root devices K000, K001, ...; the first is of manufacturer
\* "xx", the others of manufacturer "ab".
largeList(n) ==
  [i \in 1..n |->
     [kNumber |-> largeListKNumber(i - 1), deviceName |-> Filler,
      manufacturer |-> IF i = 1 THEN <<"x","x">> ELSE <<"a","b">>,
      productClass |-> <<"I">>, panelType |-> Filler, predicateDevices |-> <<>>]]

\* The sizes of the lists: empty, small, and around the limit of 500.
LayoutSizes ==
  {0, 1, 2, 6, 7, 13, 500, 501}

\* The queries searched for in the lists: no filter, all but the first
\* device, the first device, the devices from K500 on, and no device.
LayoutQueries ==
  { <<"K">>, <<"a","b">>, <<"X","X">>, <<"K","5">>, <<"z","z">> }

InitLayout ==
  /\ mockDevices \in {largeList(n) : n \in LayoutSizes}
  /\ InitStore

NextLayout ==
  \/ \E term \in LayoutQueries : performSearch(term)
  \/ clearSearch
  \/ \E id \in {null, largeListKNumber(0)} : setSelectedNode(id)

SpecLayout ==
  InitLayout /\ [][NextLayout]_vars

\* C14: the hierarchical layout has a node-count boundary of 500: above it
\* dagre is never run and the too-large warning and the grid fallback are
\* taken; at or below it (exactly 500 and 0 included) dagre is run.
C14_DagreBoundary ==
  /\ Len(nodes) > 500 =>
       /\ layout.strategy = "grid"
       /\ layout.tooLargeWarning
       /\ Len(layout.positions) = Len(nodes)
  /\ Len(nodes) <= 500 =>
       /\ layout.strategy = "dagre"
       /\ ~layout.tooLargeWarning
       /\ Len(layout.graphNodes) = Len(nodes)

\* C14 witness: a search in a list of 501 devices left exactly 500 of them,
\* and dagre is run on the 500.
C14_Witness ==
  /\ Len(mockDevices) = 501
  /\ lastAction = "performSearch"
  /\ Len(nodes) = 500
  /\ layout.strategy = "dagre"

(***************************************************************************)
(* Adjacency counts and edges of the displayed graph                       *)
(***************************************************************************)

\* The sum of the numbers of a sequence.
RECURSIVE sumOf(_)
sumOf(numbers) ==
  IF numbers = <<>> THEN 0 ELSE Head(numbers) + sumOf(Tail(numbers))

\* C15: forward and backward adjacency of the displayed graph agree: a
\* device d is counted among the children of p exactly when p is counted
\* among the predicates of d, so that the childrenCount of all nodes and the
\* predicateCount of all nodes add up to the same number, with a filter too.
C15_AdjacencyCountsAgree ==
  /\ \A p \in 1..Len(nodes) :
       nodes[p].childrenCount =
         Cardinality({d \in 1..Len(nodes) : \E e \in 1..Len(edges) :
                        edges[e].source = nodes[p].id /\ edges[e].target = nodes[d].id})
  /\ \A d \in 1..Len(nodes) :
       nodes[d].predicateCount =
         Cardinality({p \in 1..Len(nodes) : \E e \in 1..Len(edges) :
                        edges[e].source = nodes[p].id /\ edges[e].target = nodes[d].id})
  /\ sumOf([i \in 1..Len(nodes) |-> nodes[i].childrenCount])
       = sumOf([i \in 1..Len(nodes) |-> nodes[i].predicateCount])

\* C16: the edges produced for any device list contain no self-loop and no
\* two edges for the same ordered pair (predicate, dependent), so that the
\* edge ids are unique.
C16_NoSelfLoopNoDuplicateEdge ==
  /\ \A i \in 1..Len(edges) : edges[i].source # edges[i].target
  /\ \A i \in 1..Len(edges) : \A j \in 1..Len(edges) :
       i # j =>
         /\ <<edges[i].source, edges[i].target>> # <<edges[j].source, edges[j].target>>
         /\ edges[i].id # edges[j].id

\* C17: in every snapshot handed to the renderer a node is flagged
\* isSelected exactly when its id is the selectedNodeId of the store: the
\* node of a selected visible device and only that node is flagged, and no
\* node is flagged while the selection is cleared.
C17_SelectedFlagFollowsStore ==
  \A i \in 1..Len(nodes) :
    nodes[i].isSelected <=> (nodes[i].id = selectedNodeId)

(***************************************************************************)
(* The search input: debounced search, submit and clear                    *)
(***************************************************************************)

\* The delay of the debounce timer, and the delays after which the search
\* started by the debounce timer and by a submit is reported completed (ms).
DebounceDelay ==
  300

DebounceCompletionDelay ==
  150

SubmitCompletionDelay ==
  200

\* The step of the clock (ms): timers are looked at every TickMs.
TickMs ==
  50

\* The largest number of completion timers that are pending at once.
MaxCompletionTimers ==
  2

\* The queries typed into the input, and the terms another component (the
\* store test panel) writes into the store.
TypedQueries ==
  { <<>>, <<"K">>, <<"K","9">>, <<"K","9","2">> }

ExternalTerms ==
  { <<"K","9">> }

\* An effect that returns no cleanup: the timer of the last run stays.
effectCleanupMissing(timers) ==
  timers

\* The cleanup of the debounced search effect, run before the effect runs
\* again: clearTimeout of the timer that the last run of the effect set.  A
\* timer that has fired is no longer among the pending ones.
effectCleanup(timers) ==
  SelectSeq(timers, LAMBDA t : ~t.owned)

\* An effect that leaves a search that is set as it is when the query is
\* empty or too short.
debouncedSearchEffectKeepingSearch(currentQuery, term, timers) ==
  LET pending == effectCleanup(timers)
  IN  IF currentQuery = <<>> \/ Len(currentQuery) < 2
        THEN [clearSearch |-> FALSE, timers |-> pending]
        ELSE IF currentQuery = term
          THEN [clearSearch |-> FALSE, timers |-> pending]
          ELSE [clearSearch |-> FALSE,
                timers |-> Append(pending, [query |-> currentQuery,
                                            remaining |-> DebounceDelay,
                                            owned |-> TRUE])]

\* The debounced search effect for the query of the form and the search term
\* of the store, after the cleanup of its last run: a query that is empty or
\* shorter than 2 clears a search that is set; a query equal to the search
\* term does nothing; any other query sets a timer of 300 ms.
debouncedSearchEffect(currentQuery, term, timers) ==
  LET pending == effectCleanup(timers)
  IN  IF currentQuery = <<>> \/ Len(currentQuery) < 2
        THEN [clearSearch |-> term # <<>>, timers |-> pending]
        ELSE IF currentQuery = term
          THEN [clearSearch |-> FALSE, timers |-> pending]
          ELSE [clearSearch |-> FALSE,
                timers |-> Append(pending, [query |-> currentQuery,
                                            remaining |-> DebounceDelay,
                                            owned |-> TRUE])]

\* The end of every handler of the search input.  The handler left the query
\* of the form at query (changed age ms ago), the store at term, filtered and
\* searching, handed the queries of performed to performSearch and left the
\* timers pending.  The component renders again, and the effect runs when
\* currentQuery or searchTerm differ from the last render; when the effect
\* clears the search, the search term changes and the effect runs once more.
\* cancelled counts, up to 2, the timers that the cleanup has cancelled since
\* the input was last changed with no timer pending.
afterHandler(action, query, age, term, filtered, searching, performed, timers, completions) ==
  LET depsChanged == query # searchInput.currentQuery \/ term # searchTerm
      first == IF depsChanged
                 THEN debouncedSearchEffect(query, term, timers)
                 ELSE [clearSearch |-> FALSE, timers |-> timers]
      last == IF first.clearSearch
                THEN debouncedSearchEffect(query, <<>>, first.timers)
                ELSE first
      finalTerm == IF first.clearSearch THEN <<>> ELSE term
      finalFiltered == IF first.clearSearch THEN <<>> ELSE filtered
      finalSearching == IF first.clearSearch THEN FALSE ELSE searching
      dropped == (IF depsChanged THEN Len(timers) - Len(effectCleanup(timers)) ELSE 0)
                 + (IF first.clearSearch
                      THEN Len(first.timers) - Len(effectCleanup(first.timers))
                      ELSE 0)
      burst == IF action = "changeInput" /\ searchInput.debounceTimers = <<>>
                 THEN 0
                 ELSE searchInput.cancelled
  IN  /\ searchTerm' = finalTerm
      /\ filteredDevices' = finalFiltered
      /\ isSearching' = finalSearching
      /\ Render(finalTerm, finalFiltered)
      /\ searchInput' = [currentQuery |-> query,
                         queryAge |-> age,
                         debounceTimers |-> last.timers,
                         completionTimers |-> completions,
                         cancelled |-> IF burst + dropped > 2 THEN 2 ELSE burst + dropped,
                         performed |-> performed]
      /\ lastAction' = action
      /\ returned' = <<>>
      /\ UNCHANGED <<env, boundary, localStorage, client, depths, mockDevices, selectedNodeId>>

\* The sequence without its i-th element.
removeAt(seq, i) ==
  SubSeq(seq, 1, i - 1) \o SubSeq(seq, i + 1, Len(seq))

\* The user changes the text of the input to query.
changeInput(query) ==
  /\ query # searchInput.currentQuery
  /\ afterHandler("changeInput", query, 0, searchTerm, filteredDevices, isSearching,
                  <<>>, searchInput.debounceTimers, searchInput.completionTimers)

\* A debounce timer that is due fires: setIsSearching(true), performSearch
\* of the query the timer was set for, and a timer of 150 ms that reports
\* the search completed.
debounceTimerFires ==
  \E i \in 1..Len(searchInput.debounceTimers) :
    LET timer == searchInput.debounceTimers[i]
    IN  /\ timer.remaining = 0
        /\ Len(searchInput.completionTimers) < MaxCompletionTimers
        /\ afterHandler("debounceTimer", searchInput.currentQuery, searchInput.queryAge,
                        timer.query, filterDevices(mockDevices, timer.query), TRUE,
                        <<timer.query>>,
                        removeAt(searchInput.debounceTimers, i),
                        Append(searchInput.completionTimers, DebounceCompletionDelay))

\* A completion timer that fires and leaves isSearching as it is.
completionTimerFiresKeepingSearching ==
  \E i \in 1..Len(searchInput.completionTimers) :
    /\ searchInput.completionTimers[i] = 0
    /\ afterHandler("searchCompleted", searchInput.currentQuery, searchInput.queryAge,
                    searchTerm, filteredDevices, isSearching, <<>>,
                    searchInput.debounceTimers,
                    removeAt(searchInput.completionTimers, i))

\* A completion timer that is due fires: setIsSearching(false).
completionTimerFires ==
  \E i \in 1..Len(searchInput.completionTimers) :
    /\ searchInput.completionTimers[i] = 0
    /\ afterHandler("searchCompleted", searchInput.currentQuery, searchInput.queryAge,
                    searchTerm, filteredDevices, FALSE, <<>>,
                    searchInput.debounceTimers,
                    removeAt(searchInput.completionTimers, i))

\* The form is submitted (Enter).  The form hands a query that is empty or
\* of at least 2 characters to onSubmit, which returns when a search is
\* running or the query is the search term, and else searches at once and
\* sets a timer of 200 ms that reports the search completed.
onSubmit ==
  /\ searchInput.currentQuery = <<>> \/ Len(searchInput.currentQuery) >= 2
  /\ IF isSearching \/ searchInput.currentQuery = searchTerm
       THEN afterHandler("onSubmit", searchInput.currentQuery, searchInput.queryAge,
                         searchTerm, filteredDevices, isSearching, <<>>,
                         searchInput.debounceTimers, searchInput.completionTimers)
       ELSE /\ Len(searchInput.completionTimers) < MaxCompletionTimers
            /\ afterHandler("onSubmit", searchInput.currentQuery, searchInput.queryAge,
                            searchInput.currentQuery,
                            filterDevices(mockDevices, searchInput.currentQuery), TRUE,
                            <<searchInput.currentQuery>>,
                            searchInput.debounceTimers,
                            Append(searchInput.completionTimers, SubmitCompletionDelay))

\* The clear button, shown while the input has text and no search is
\* running: the query of the form is emptied and the search cleared.
handleClear ==
  /\ searchInput.currentQuery # <<>>
  /\ ~isSearching
  /\ afterHandler("handleClear", <<>>, 0, <<>>, <<>>, FALSE, <<>>,
                  searchInput.debounceTimers, searchInput.completionTimers)

\* Another component writes a search term into the store, or clears the
\* search, while the search input is mounted.
externalSetSearchTerm(term) ==
  afterHandler("setSearchTerm", searchInput.currentQuery, searchInput.queryAge,
               term, filteredDevices, isSearching, <<>>,
               searchInput.debounceTimers, searchInput.completionTimers)

externalClearSearch ==
  afterHandler("clearSearch", searchInput.currentQuery, searchInput.queryAge,
               <<>>, <<>>, FALSE, <<>>,
               searchInput.debounceTimers, searchInput.completionTimers)

\* TickMs pass: no timer is due (a due timer fires first), every pending
\* timer comes TickMs nearer, and the query is TickMs older (the age is
\* counted up to the debounce delay).
tick ==
  /\ \A i \in 1..Len(searchInput.debounceTimers) : searchInput.debounceTimers[i].remaining > 0
  /\ \A i \in 1..Len(searchInput.completionTimers) : searchInput.completionTimers[i] > 0
  /\ searchInput' =
       [searchInput EXCEPT
          !.queryAge = IF @ + TickMs > DebounceDelay THEN DebounceDelay ELSE @ + TickMs,
          !.debounceTimers = [i \in 1..Len(@) |->
                                [@[i] EXCEPT !.remaining = IF @ > TickMs THEN @ - TickMs ELSE 0]],
          !.completionTimers = [i \in 1..Len(@) |-> IF @[i] > TickMs THEN @[i] - TickMs ELSE 0],
          !.performed = <<>>]
  /\ lastAction' = "tick"
  /\ returned' = <<>>
  /\ UNCHANGED <<env, boundary, localStorage, client, depths, mockDevices, selectedNodeId, searchTerm,
                 filteredDevices, isSearching, nodes, edges, layout>>

InitSearchInput ==
  /\ mockDevices = ThreeDevices
  /\ InitStore

NextSearchInput ==
  \/ \E query \in TypedQueries : changeInput(query)
  \/ debounceTimerFires
  \/ completionTimerFires
  \/ onSubmit
  \/ handleClear
  \/ \E term \in ExternalTerms : externalSetSearchTerm(term)
  \/ externalClearSearch
  \/ tick

SpecSearchInput ==
  InitSearchInput /\ [][NextSearchInput]_vars

\* C18: keystrokes are debounced before they reach the store: the debounce
\* timer hands performSearch only a query of at least 2 characters that has
\* been the text of the input for 300 ms; every change of the input cancels
\* the pending debounce timer, so that at most one timer is pending and the
\* queries typed in between never reach the store.
C18_KeystrokesAreDebounced ==
  [][/\ lastAction' = "debounceTimer" =>
          /\ Len(searchInput'.performed) = 1
          /\ Len(searchInput'.performed[1]) >= 2
          /\ searchInput'.performed[1] = searchInput.currentQuery
          /\ searchInput.queryAge >= 300
          /\ searchTerm' = searchInput.currentQuery
     /\ lastAction' = "changeInput" =>
          \A i \in 1..Len(searchInput'.debounceTimers) :
            /\ searchInput'.debounceTimers[i].query = searchInput'.currentQuery
            /\ searchInput'.debounceTimers[i].remaining = 300
     /\ Len(searchInput'.debounceTimers) <= 1]_vars

\* C18 witness: the debounce timer searched for "K92" after a burst in which
\* the timers of at least two earlier queries were cancelled.
C18_Witness ==
  /\ lastAction = "debounceTimer"
  /\ searchTerm = <<"K","9","2">>
  /\ searchInput.cancelled >= 2
  /\ filteredDevices # <<>>

(***************************************************************************)
(* The data source in every data mode                                      *)
(***************************************************************************)

\* The largest rate limit configured.
MaxRateLimit == 2

\* The environments of a page load: every data mode, with and without an API
\* key, and a rate limit of one request or more.
Environments ==
  {[dataMode |-> m, fdaApiKey |-> k, rateLimit |-> r] :
     m \in {"mock", "api", "hybrid"}, k \in BOOLEAN, r \in 1..MaxRateLimit}

InitData ==
  /\ mockDevices \in {ThreeDevices, BuiltInDevices}
  /\ selectedNodeId = initialState.selectedNodeId
  /\ searchTerm = initialState.searchTerm
  /\ filteredDevices = initialState.filteredDevices
  /\ isSearching = initialState.isSearching
  /\ nodes = transformDevicesToNodes(mockDevices, undefined)
  /\ edges = transformDevicesToEdges(mockDevices)
  /\ layout = layoutNodes(nodes, edges)
  /\ searchInput = initialSearchInput
  /\ boundary = initialBoundary
  /\ localStorage = initialLocalStorage
  /\ env \in Environments
  /\ mockDevices = BuiltInDevices => env = [DEFAULT_CONFIG EXCEPT !.rateLimit = 1]
  /\ client = initialClient
  /\ lastAction = "init"
  /\ returned = <<>>
  /\ depths = <<>>

NextData ==
  \/ \E params \in ParamInputs : callGetDevices(params)
  \/ \E filters \in FilterInputs : callFetchDevices(filters)
  \/ \E kNumber \in KNumberInputs : callGetDeviceByKNumber(kNumber)
  \/ \E kNumber \in KNumberInputs : getRelatedDevices(kNumber)

SpecData ==
  InitData /\ [][NextData]_vars

\* The devices of a list are devices of the built-in dataset.
fromDataset(devices) ==
  \A i \in 1..Len(devices) : \E j \in 1..Len(mockDevices) : devices[i] = mockDevices[j]

\* C19: in mock mode no sequence of getDevices, getDeviceByKNumber,
\* getRelatedDevices and fetchDevices calls sends a request or records a
\* rate-limit entry, and every result comes from the in-memory dataset, with
\* the source "mock" where the result names a source.
C19_MockModeStaysOffTheNetwork ==
  env.dataMode = "mock" =>
    /\ client.fetches = 0
    /\ client.requests = <<>>
    /\ lastAction \in {"getDevices", "fetchDevices"} =>
         /\ returned[1].source = "mock"
         /\ returned[1].error = "none"
         /\ fromDataset(returned[1].devices)
    /\ lastAction = "getDeviceByKNumber" =>
         fromDataset(returned[1])
    /\ lastAction = "getRelatedDevices" =>
         /\ fromDataset(returned[1].device)
         /\ fromDataset(returned[1].predicates)
         /\ fromDataset(returned[1].dependents)

\* C19 witness: in mock mode all four calls have been made at least up to
\* fetchDevices with a search term, which answered with K921156 from the
\* dataset.
C19_Witness ==
  /\ env.dataMode = "mock"
  /\ lastAction = "fetchDevices"
  /\ Len(returned[1].devices) = 1
  /\ returned[1].devices[1].kNumber = K921156

\* C22: a step that clears the search (clearSearch, the clear button), and
\* every step that leaves the input empty or shorter than 2 characters, also
\* when the store held a search term before or was given one in the step,
\* ends with searchTerm empty and isSearching false, and what is displayed
\* is the whole dataset and not the empty filteredDevices.
C22_ShortInputClearsTheSearch ==
  [][(\/ lastAction' \in {"clearSearch", "handleClear"}
      \/ /\ lastAction' # "tick"
         /\ Len(searchInput'.currentQuery) < MinSearchLength)
       => /\ searchTerm' = <<>>
          /\ isSearching' = FALSE
          /\ filteredDevices' = <<>>
          /\ [i \in 1..Len(nodes') |-> nodes'[i].id]
               = [i \in 1..Len(mockDevices) |-> mockDevices[i].kNumber]]_vars

\* C22 witness: the input was cut to one character while the completion of
\* a search was pending, and the search is cleared.
C22_Witness ==
  /\ lastAction = "changeInput"
  /\ searchInput.currentQuery = <<"K">>
  /\ searchInput.completionTimers # <<>>
  /\ searchTerm = <<>>
  /\ ~isSearching
  /\ Len(nodes) = Len(mockDevices)

\* The number of citations of the devices before the i-th of a list.
citationsBefore(devices, i) ==
  sumOf([k \in 1..(i - 1) |-> Len(devices[k].predicateDevices)])

callMakeRequest ==
  \E outcome \in NetworkOutcomes :
    LET got == makeRequest(outcome, client)
    IN  /\ returned' = <<[threw |-> got.threw, status |-> got.status, code |-> got.code]>>
        /\ client' = got.client
        /\ lastAction' = "makeRequest"
        /\ UNCHANGED <<searchInput, env, boundary, localStorage, depths, mockDevices, selectedNodeId, searchTerm,
                       filteredDevices, isSearching, nodes, edges, layout>>

\* getRateLimitStatus is called.
getRateLimitStatus ==
  LET status == getStatus(client)
  IN  /\ returned' = <<[remaining |-> status.remaining, total |-> status.total]>>
      /\ client' = status.client
      /\ lastAction' = "getRateLimitStatus"
      /\ UNCHANGED <<searchInput, env, boundary, localStorage, depths, mockDevices, selectedNodeId, searchTerm,
                     filteredDevices, isSearching, nodes, edges, layout>>

\* RateClockStepMs pass: every entry of the rate limiter is that much older
\* (an age is counted up to the window).
clockAdvances ==
  /\ client.fetches < MaxFetches
  /\ client' = [client EXCEPT
                  !.requests = [i \in 1..Len(@) |->
                                  IF @[i] + RateClockStepMs > WindowMs
                                    THEN WindowMs
                                    ELSE @[i] + RateClockStepMs]]
  /\ lastAction' = "clockAdvances"
  /\ returned' = <<>>
  /\ UNCHANGED <<searchInput, env, boundary, localStorage, depths, mockDevices, selectedNodeId, searchTerm,
                 filteredDevices, isSearching, nodes, edges, layout>>

InitLimiter ==
  /\ mockDevices = ThreeDevices
  /\ selectedNodeId = initialState.selectedNodeId
  /\ searchTerm = initialState.searchTerm
  /\ filteredDevices = initialState.filteredDevices
  /\ isSearching = initialState.isSearching
  /\ nodes = transformDevicesToNodes(mockDevices, undefined)
  /\ edges = transformDevicesToEdges(mockDevices)
  /\ layout = layoutNodes(nodes, edges)
  /\ searchInput = initialSearchInput
  /\ boundary = initialBoundary
  /\ localStorage = initialLocalStorage
  /\ env \in Environments
  /\ client = initialClient
  /\ lastAction = "init"
  /\ returned = <<>>
  /\ depths = <<>>

NextLimiter ==
  \/ callMakeRequest
  \/ \E filters \in FilterInputs : callFetchDevices(filters)
  \/ getRateLimitStatus
  \/ clockAdvances

SpecLimiter ==
  InitLimiter /\ [][NextLimiter]_vars

\* The number of entries of the rate limiter that are inside the window.
recordedInWindow(requests) ==
  Cardinality({i \in 1..Len(requests) : requests[i] < WindowMs})

\* C24: the requests recorded inside the window are never more than
\* maxRequests.  A makeRequest at the limit fails with the error of status
\* 429, records nothing and sends nothing; a makeRequest below the limit,
\* also when the entries that are older than the window would reach it,
\* records one request and sends it.
C24_RateLimitIsNeverExceeded ==
  [][/\ recordedInWindow(client'.requests) <= env.rateLimit
     /\ (lastAction' = "makeRequest" /\ recordedInWindow(client.requests) >= env.rateLimit) =>
          /\ returned'[1].threw
          /\ returned'[1].status = 429
          /\ client'.fetches = client.fetches
          /\ recordedInWindow(client'.requests) = recordedInWindow(client.requests)
          /\ Len(client'.requests) <= Len(client.requests)
     /\ (lastAction' = "makeRequest" /\ recordedInWindow(client.requests) < env.rateLimit) =>
          /\ returned'[1].status # 429
          /\ client'.fetches = client.fetches + 1
          /\ recordedInWindow(client'.requests) = recordedInWindow(client.requests) + 1]_vars

\* C24 witness: a request was sent although as many requests as the limit
\* had been sent before it, because one of them had left the window; the
\* limiter holds as many entries as the limit again.
C24_Witness ==
  /\ lastAction = "makeRequest"
  /\ ~returned[1].threw
  /\ client.fetches > env.rateLimit
  /\ recordedInWindow(client.requests) = env.rateLimit
  /\ env.rateLimit = 2

\* C25: fetchDevices always resolves.  It answers with the source "api" and
\* no error exactly when a request was sent and succeeded; on every failure
\* of the API path (the rate limit, an HTTP error status, the abort after
\* 10 s, a network error, a body that is not JSON or has no results) it
\* answers with devices of the mock dataset, the source "mock" and the
\* error; in mock mode it answers with the mock devices and no error.
C25_FetchDevicesAlwaysResolves ==
  lastAction = "fetchDevices" =>
    /\ returned[1].source \in {"api", "mock"}
    /\ returned[1].source = "api" <=> returned[2] = "ok"
    /\ returned[1].source = "api" => returned[1].error = "none"
    /\ returned[1].source = "mock" =>
         /\ fromDataset(returned[1].devices)
         /\ returned[1].error = "none" <=> env.dataMode = "mock"
    /\ (env.dataMode # "mock" /\ returned[2] = "notSent") => returned[1].error = "HTTP_429"

\* C25 witness: each failure of the API path was answered with a mock
\* device and its error; here the body without results, after a search.
C25_Witness ==
  /\ lastAction = "fetchDevices"
  /\ returned[2] = "missingResults"
  /\ returned[1].source = "mock"
  /\ returned[1].error = "TypeError"
  /\ Len(returned[1].devices) = 1
  /\ returned[1].devices[1].kNumber = K921156

(***************************************************************************)
(* The error boundary: retry, reset and the retry timers                   *)
(***************************************************************************)

\* The largest number of retries after which the Retry button is offered no
\* longer (retryCount >= 3, retryCount < 3).
MaxRetries ==
  3

\* The base of the retry delay (ms): Math.pow(2, retryCount) * 1000.
RetryBaseDelayMs ==
  1000

\* The step of the clock of the retry timers (ms).
RetryTickMs ==
  1000

\* The largest number of retry timers that are pending at once, and the
\* number of clearings of the error up to which Retry clicks are followed.
MaxRetryTimers ==
  2

MaxCleared ==
  4

\* The categories getErrorCategory sorts the message of an error into, named
\* by what the message holds, and whether the category can be retried.
ErrorCategories ==
  {"api", "rateLimit", "validation", "unknown"}

canRetry(category) ==
  category \in {"api", "unknown"}

canUseMockData(category) ==
  category \in {"api", "rateLimit", "validation"}

RECURSIVE pow2(_)
pow2(n) ==
  IF n = 0 THEN 1 ELSE 2 * pow2(n - 1)

boundaryFrame ==
  <<mockDevices, selectedNodeId, searchTerm, filteredDevices, isSearching, nodes, edges,
    layout, searchInput, env, client, localStorage, depths>>

\* A child throws while it renders: getDerivedStateFromError and
\* componentDidCatch set hasError and the error; the fallback is rendered.
componentDidCatch(category) ==
  /\ boundary.mounted
  /\ ~boundary.hasError
  /\ boundary' = [boundary EXCEPT !.hasError = TRUE, !.error = category]
  /\ lastAction' = "componentDidCatch"
  /\ returned' = <<>>
  /\ UNCHANGED boundaryFrame

\* A click on Retry, which is rendered while the error can be retried and
\* retryCount is below 3: handleRetry sets a timer of 2^retryCount seconds
\* that holds the retryCount of the click; retryTimeoutId is written over,
\* and the timer of an earlier click stays pending.
handleRetry ==
  /\ boundary.mounted
  /\ boundary.hasError
  /\ canRetry(boundary.error)
  /\ boundary.retryCount < MaxRetries
  /\ boundary.cleared < MaxCleared
  /\ Len(boundary.retryTimers) < MaxRetryTimers
  /\ boundary' = [boundary EXCEPT
                    !.retryTimers =
                      Append(@, [retryCount |-> boundary.retryCount,
                                 remaining |-> pow2(boundary.retryCount) * RetryBaseDelayMs,
                                 delay |-> pow2(boundary.retryCount) * RetryBaseDelayMs])]
  /\ lastAction' = "handleRetry"
  /\ returned' = <<>>
  /\ UNCHANGED boundaryFrame

\* A retry timer that is due fires: the error is cleared and retryCount is
\* the retryCount of the click plus one.  On a boundary that is unmounted
\* setState does nothing.
retryTimerFires ==
  \E i \in 1..Len(boundary.retryTimers) :
    LET timer == boundary.retryTimers[i]
    IN  /\ timer.remaining = 0
        /\ boundary' =
             IF boundary.mounted
               THEN [boundary EXCEPT
                       !.hasError = FALSE,
                       !.error = "none",
                       !.retryCount = timer.retryCount + 1,
                       !.retryTimers = removeAt(@, i),
                       !.cleared = IF boundary.hasError THEN @ + 1 ELSE @]
               ELSE [boundary EXCEPT !.retryTimers = removeAt(@, i)]
        /\ lastAction' = "retryTimer"
        /\ returned' = <<timer.delay>>
        /\ UNCHANGED boundaryFrame

\* A click on Reset Application: the error is cleared and retryCount is 0.
\* The pending retry timers stay.
handleReset ==
  /\ boundary.mounted
  /\ boundary.hasError
  /\ boundary' = [boundary EXCEPT
                    !.hasError = FALSE, !.error = "none", !.retryCount = 0, !.cleared = 0]
  /\ lastAction' = "handleReset"
  /\ returned' = <<>>
  /\ UNCHANGED boundaryFrame

\* The boundary is unmounted: the timer retryTimeoutId names, the one set
\* last, is cleared.
componentWillUnmount ==
  /\ boundary.mounted
  /\ boundary' = [boundary EXCEPT
                    !.mounted = FALSE,
                    !.retryTimers = SubSeq(@, 1, Len(@) - 1)]
  /\ lastAction' = "componentWillUnmount"
  /\ returned' = <<>>
  /\ UNCHANGED boundaryFrame

\* RetryTickMs pass: no retry timer is due, and every one comes nearer.
retryClockTick ==
  /\ boundary.retryTimers # <<>>
  /\ \A i \in 1..Len(boundary.retryTimers) : boundary.retryTimers[i].remaining > 0
  /\ boundary' = [boundary EXCEPT
                    !.retryTimers =
                      [i \in 1..Len(@) |->
                         [@[i] EXCEPT !.remaining =
                            IF @ > RetryTickMs THEN @ - RetryTickMs ELSE 0]]]
  /\ lastAction' = "retryClockTick"
  /\ returned' = <<>>
  /\ UNCHANGED boundaryFrame

InitBoundary ==
  /\ mockDevices = ThreeDevices
  /\ InitStore

NextBoundary ==
  \/ \E category \in ErrorCategories : componentDidCatch(category)
  \/ handleRetry
  \/ retryTimerFires
  \/ handleReset
  \/ componentWillUnmount
  \/ retryClockTick

SpecBoundary ==
  InitBoundary /\ [][NextBoundary]_vars

\* C26: the error boundary allows at most 3 retries: retryCount is never
\* more than 3, between two resets the retry timers clear the error at most
\* 3 times, and the timer of a retry is set for 1 s, 2 s and 4 s, for every
\* interleaving of Retry clicks, timers and errors thrown again.
C26_AtMostThreeRetries ==
  /\ boundary.retryCount <= MaxRetries
  /\ boundary.cleared <= MaxRetries
  /\ \A i \in 1..Len(boundary.retryTimers) :
       boundary.retryTimers[i].delay \in {1000, 2000, 4000}

(***************************************************************************)
(* Switching the data source: localStorage and the page reload             *)
(***************************************************************************)

\* window.location.reload(): the page is loaded again.  The store, the search
\* input, the API client with its rate limiter and the error boundary are
\* created anew; localStorage is kept.  The configuration is read again by
\* getEnvironmentConfig, from process.env with the defaults: process.env is
\* that of the build and no key of localStorage is read, so the
\* configuration is the one of the page load before.
reload ==
  /\ selectedNodeId' = initialState.selectedNodeId
  /\ searchTerm' = initialState.searchTerm
  /\ filteredDevices' = initialState.filteredDevices
  /\ isSearching' = initialState.isSearching
  /\ Render(initialState.searchTerm, initialState.filteredDevices)
  /\ searchInput' = initialSearchInput
  /\ client' = initialClient
  /\ boundary' = initialBoundary
  /\ env' = env
  /\ UNCHANGED <<mockDevices, depths>>

\* handleModeChange of the environment toggle: the mode is written to the
\* key FDA_DATA_MODE of localStorage and the page is reloaded.
handleModeChange(newMode) ==
  /\ ~boundary.hasError
  /\ localStorage' = [localStorage EXCEPT !.FDA_DATA_MODE = newMode]
  /\ reload
  /\ lastAction' = "handleModeChange"
  /\ returned' = <<>>

\* A click on Use Mock Data, which the error boundary renders for an error
\* that can use mock data: both keys of localStorage are written and the
\* page is reloaded.
handleUseMockData ==
  /\ boundary.mounted
  /\ boundary.hasError
  /\ canUseMockData(boundary.error)
  /\ localStorage' = [FDA_DATA_MODE |-> "mock", ERROR_RECOVERY_MODE |-> "true"]
  /\ reload
  /\ lastAction' = "handleUseMockData"
  /\ returned' = <<>>

InitPage ==
  /\ mockDevices = ThreeDevices
  /\ selectedNodeId = initialState.selectedNodeId
  /\ searchTerm = initialState.searchTerm
  /\ filteredDevices = initialState.filteredDevices
  /\ isSearching = initialState.isSearching
  /\ nodes = transformDevicesToNodes(mockDevices, undefined)
  /\ edges = transformDevicesToEdges(mockDevices)
  /\ layout = layoutNodes(nodes, edges)
  /\ searchInput = initialSearchInput
  /\ boundary = initialBoundary
  /\ localStorage = initialLocalStorage
  /\ env \in Environments
  /\ client = initialClient
  /\ lastAction = "init"
  /\ returned = <<>>
  /\ depths = <<>>

NextPage ==
  \/ \E newMode \in {"mock", "api"} : handleModeChange(newMode)
  \/ handleUseMockData
  \/ \E category \in ErrorCategories : componentDidCatch(category)
  \/ handleReset
  \/ \E filters \in {[none |-> 0]} : callFetchDevices(filters)
  \/ \E params \in {[none |-> 0]} : callGetDevices(params)

SpecPage ==
  InitPage /\ [][NextPage]_vars

\* C27: switching the data source takes effect: after handleModeChange(m),
\* or after Use Mock Data, and the reload they trigger, the data mode of the
\* configuration is the chosen one, shouldUseAPI answers for it, and in the
\* chosen mock mode fetchDevices sends no request.
C27_ChosenDataModeIsUsed ==
  localStorage.FDA_DATA_MODE # "unset" =>
    /\ env.dataMode = localStorage.FDA_DATA_MODE
    /\ shouldUseAPI <=> localStorage.FDA_DATA_MODE = "api"
    /\ localStorage.FDA_DATA_MODE = "mock" => client.fetches = 0

(***************************************************************************)
(* Looking a device up by its K-number                                     *)
(***************************************************************************)

\* Devices for the lookup: N1; a device whose K-number, one whose name and
\* one whose manufacturer holds "N1" (in upper or lower case) without being
\* N1; and a device that has nothing of N1.
lookupDevice(kNumber, deviceName, manufacturer) ==
  [kNumber |-> kNumber, deviceName |-> deviceName, manufacturer |-> manufacturer,
   productClass |-> <<"I","I">>, predicateDevices |-> <<>>]

LookupDevices ==
  { lookupDevice(NodeId(1), Filler, Filler),
    lookupDevice(<<"N","1","2">>, Filler, Filler),
    lookupDevice(NodeId(2), <<"f","o","r"," ","n","1">>, Filler),
    lookupDevice(NodeId(3), Filler, <<"N","1"," ","I","n","c">>),
    lookupDevice(NodeId(4), Filler, Filler) }

\* The datasets: one or two of these devices in either order, and the three
\* devices of the built-in dataset.
LookupDatasets ==
  {<<d>> : d \in LookupDevices}
    \cup {pair \in {<<d, e>> : d \in LookupDevices, e \in LookupDevices} : pair[1] # pair[2]}
    \cup {ThreeDevices}

LookupInputs ==
  { NodeId(1), NodeId(4), <<"N","1","2">>, K921156, NonexistentId }

\* getDeviceByKNumber of the API client is called; next to the answer the
\* K-number asked for is kept.
callFdaAPIClientGetDeviceByKNumber(kNumber) ==
  \E outcome \in NetworkOutcomes :
    LET got == fdaAPIClientGetDeviceByKNumber(kNumber, outcome, client)
    IN  /\ returned' = <<got.response, kNumber>>
        /\ client' = got.client
        /\ lastAction' = "fdaAPIClient.getDeviceByKNumber"
        /\ UNCHANGED <<searchInput, env, boundary, localStorage, depths, mockDevices,
                       selectedNodeId, searchTerm, filteredDevices, isSearching, nodes, edges,
                       layout>>

InitLookup ==
  /\ mockDevices \in LookupDatasets
  /\ selectedNodeId = initialState.selectedNodeId
  /\ searchTerm = initialState.searchTerm
  /\ filteredDevices = initialState.filteredDevices
  /\ isSearching = initialState.isSearching
  /\ nodes = transformDevicesToNodes(mockDevices, undefined)
  /\ edges = transformDevicesToEdges(mockDevices)
  /\ layout = layoutNodes(nodes, edges)
  /\ searchInput = initialSearchInput
  /\ boundary = initialBoundary
  /\ localStorage = initialLocalStorage
  /\ env \in {e \in Environments : e.rateLimit = 1}
  /\ client = initialClient
  /\ lastAction = "init"
  /\ returned = <<>>
  /\ depths = <<>>

NextLookup ==
  \/ \E kNumber \in LookupInputs : callFdaAPIClientGetDeviceByKNumber(kNumber)
  \/ \E kNumber \in LookupInputs : callGetDeviceByKNumber(kNumber)

SpecLookup ==
  InitLookup /\ [][NextLookup]_vars

\* C28: getDeviceByKNumber(k) of the API client, answered from the mock
\* dataset, returns the device whose K-number is k whenever the dataset has
\* one, and null only when it has none, also when other devices hold k in
\* their K-number, name or manufacturer.
C28_LookupFindsTheExactDevice ==
  (lastAction = "fdaAPIClient.getDeviceByKNumber" /\ returned[1].source = "mock") =>
    /\ \A i \in 1..Len(returned[1].device) : returned[1].device[i].kNumber = returned[2]
    /\ returned[1].device = <<>> =>
         \A i \in 1..Len(mockDevices) : mockDevices[i].kNumber # returned[2]

(***************************************************************************)
(* The search input when its timers fire                                   *)
(***************************************************************************)

\* The browser runs a timer that is due, and time passes: a due debounce
\* timer, a due completion timer and the clock are not put off for ever.
SpecSearchInputFair ==
  /\ SpecSearchInput
  /\ WF_vars(tick)
  /\ WF_vars(debounceTimerFires)
  /\ WF_vars(completionTimerFires)

\* C29: a search that the input started (debounce timer or submit) is
\* reported completed: isSearching becomes false again when the pending
\* timers fire, whatever is typed, cleared or submitted meanwhile; and a
\* submit while a search is running, or of the query that is the search term
\* of the store, searches nothing, sets no timer and leaves the store.
C29_SearchingEndsAndSubmitIsNotRepeated ==
  /\ isSearching ~> ~isSearching
  /\ [][(/\ lastAction' = "onSubmit"
         /\ (isSearching \/ searchInput.currentQuery = searchTerm))
        => /\ searchInput'.performed = <<>>
           /\ searchInput'.completionTimers = searchInput.completionTimers
           /\ searchInput'.debounceTimers = searchInput.debounceTimers
           /\ searchTerm' = searchTerm
           /\ filteredDevices' = filteredDevices
           /\ isSearching' = isSearching]_vars

\* C29 witness: Enter was pressed on another query while the search of the
\* store's term was running with its completion timer pending, and nothing
\* was searched.
C29_Witness ==
  /\ lastAction = "onSubmit"
  /\ isSearching
  /\ Len(searchInput.completionTimers) = 1
  /\ Len(searchInput.currentQuery) >= 2
  /\ searchInput.currentQuery # searchTerm
  /\ searchInput.performed = <<>>

(***************************************************************************)
(* The dashboard: the store's filter and the search hook                   *)
(***************************************************************************)

\* The limit useDeviceSearch passes when none is given.
SearchHookLimit ==
  50

\* String.prototype.trim, for the blank as white space.
RECURSIVE trimStart(_)
trimStart(s) ==
  IF s # <<>> /\ Head(s) = " " THEN trimStart(Tail(s)) ELSE s

RECURSIVE trimEnd(_)
trimEnd(s) ==
  IF s # <<>> /\ s[Len(s)] = " " THEN trimEnd(SubSeq(s, 1, Len(s) - 1)) ELSE s

trim(s) ==
  trimEnd(trimStart(s))

\* The three devices of the CardioFlow line with their intended use.
DashboardDevices ==
  [i \in 1..Len(ThreeDevices) |->
     [field \in DOMAIN ThreeDevices[i] \cup {"intendedUse"} |->
        IF field = "intendedUse"
          THEN intendedUse[ThreeDevices[i].kNumber]
          ELSE ThreeDevices[i][field]]]

\* The terms searched for on the dashboard.
DashboardTerms ==
  { <<"K","9","2">>, <<"K","9","2"," ">>, <<"I","I","I">>, <<"s","t","e","n","t">>,
    <<"c","o","r","o","n","a","r","y">>,
    <<"c","a","r","d","i","o","v","a","s","c","u","l","a","r">>, <<"z","z">> }

\* displayDevices of DashboardTemplate with the data hooks: for a search
\* term of at least 2 characters the filtered devices of the store while the
\* search hook is loading and the devices of the search hook afterwards;
\* else the mock devices while the devices hook is loading and its devices
\* afterwards.
dashboardDisplayDevices(term, filtered, isSearchLoading, searchResults, isLoading, hookDevices) ==
  IF term # <<>> /\ Len(term) >= 2
    THEN IF isSearchLoading THEN filtered ELSE searchResults
    ELSE IF isLoading THEN mockDevices ELSE hookDevices

\* The query of useDeviceSearch for the search term of the store resolves:
\* the hook is enabled for a term of at least 2 characters and asks
\* dataProvider.getDevices for the trimmed term with a limit of 50.
useDeviceSearch ==
  /\ Len(searchTerm) >= 2
  /\ \E outcome \in NetworkOutcomes :
       LET got == getDevices([search |-> trim(searchTerm), limit |-> SearchHookLimit],
                             outcome, client)
       IN  /\ returned' = <<got.response>>
           /\ client' = got.client
           /\ lastAction' = "useDeviceSearch"
           /\ UNCHANGED <<searchInput, env, boundary, localStorage, depths, mockDevices,
                          selectedNodeId, searchTerm, filteredDevices, isSearching,
                          nodes, edges, layout>>

InitDashboard ==
  /\ mockDevices = DashboardDevices
  /\ selectedNodeId = initialState.selectedNodeId
  /\ searchTerm = initialState.searchTerm
  /\ filteredDevices = initialState.filteredDevices
  /\ isSearching = initialState.isSearching
  /\ nodes = transformDevicesToNodes(mockDevices, undefined)
  /\ edges = transformDevicesToEdges(mockDevices)
  /\ layout = layoutNodes(nodes, edges)
  /\ searchInput = initialSearchInput
  /\ boundary = initialBoundary
  /\ localStorage = initialLocalStorage
  /\ env \in Environments
  /\ client = initialClient
  /\ lastAction = "init"
  /\ returned = <<>>
  /\ depths = <<>>

NextDashboard ==
  \/ \E term \in DashboardTerms : performSearch(term)
  \/ clearSearch
  \/ useDeviceSearch

SpecDashboard ==
  InitDashboard /\ [][NextDashboard]_vars

\* C30: for a search term of at least 2 characters the three local filters
\* select the same devices of the dataset, and when the search hook has
\* answered from the local data the dashboard shows the same set of devices
\* as it showed from the store while the hook was loading.
C30_LocalFiltersSelectTheSameDevices ==
  Len(searchTerm) >= 2 =>
    /\ kNumbersOf(getMockDevices([search |-> searchTerm]).devices)
         = kNumbersOf(filterDevices(mockDevices, searchTerm))
    /\ kNumbersOf(getMockResponse([searchTerm |-> searchTerm]).devices)
         = kNumbersOf(filterDevices(mockDevices, searchTerm))
    /\ (lastAction = "useDeviceSearch" /\ returned[1].source = "mock") =>
         kNumbersOf(dashboardDisplayDevices(searchTerm, filteredDevices, FALSE,
                                            returned[1].devices, FALSE, mockDevices))
           = kNumbersOf(dashboardDisplayDevices(searchTerm, filteredDevices, TRUE,
                                                returned[1].devices, FALSE, mockDevices))

====
